---- MODULE Spec2Model ----
(***************************************************************************)
(* lmv: discovery of markdown files, the server's allowed file set and its *)
(* change notifications, and the client's edit buffer.                     *)
(*                                                                         *)
(* Paths and input tokens are sequences of one-character strings, so that  *)
(* the string functions of the source (split, startsWith, endsWith,        *)
(* toLowerCase, path.resolve, path.relative) are computed, not assumed.    *)
(***************************************************************************)
EXTENDS Integers, Sequences, FiniteSets, TLC

VARIABLES
    cwd,            \* options.cwd / config.cwd
    inputs,         \* the input tokens, in the order given
    recursive,      \* options.recursive
    includeHidden,  \* options.includeHidden
    disk,           \* the filesystem: absolute path -> kind, for the entries that exist
    unreadable,     \* the directories whose readdir fails
    strict,         \* options.strict: "true", "false" or "undefined"
    git,            \* what the git tool answers to one discovery pass
    outcome,        \* the discovery pass: not done before, else its result
    \* the server (startServer)
    absoluteFiles,  \* Set<string>, in insertion order
    allowedFiles,   \* Map<string, string>: the entries [rel, abs] in insertion order
    singleFile,
    pendingRefresh,
    sseClients,     \* the controllers in the broadcast set
    conn,           \* each connection's stream: "new", "open" or "broken"
    stream,         \* what was enqueued on each connection's controller
    watchRoots,     \* Map<string, boolean>: the entries [root, recursive]
    scans,          \* the rescans in flight, each with what its discovery pass returns
    lastReq,        \* the last /api/file request and the response to it
    \* the client (App)
    selectedPath,
    cursorPath,     \* the row of the sidebar the keyboard is on
    content,
    editedContent,
    hasChanges,     \* also hasChangesRef.current
    isEditing,
    reloadToast,    \* a "File changed on disk" toast with its Reload action is shown
    fetches,        \* the GET /api/file requests in flight
    saves,          \* the PUT /api/file requests in flight
    notices,        \* the file-changed events on their way to the client
    fileText,       \* the content on disk of each file the client can open
    \* filterGitIgnored on its own
    candidates,     \* the absolute paths handed to the filter
    filtered,       \* not done before the call, else what the filter returns
    \* one GET /api/files request
    listing,        \* the handler: idle, or inside its loop over allowedFiles.entries()
    response,       \* the last listing response
    \* the sidebar (Sidebar) and lib/file-tree
    apiFiles,       \* files: the ApiFile[] of the last listing
    sortOrder,
    filterText,
    expandedFolders,
    tree,           \* useMemo: buildFileTree(files, sortOrder)
    filteredTree,   \* useMemo: filterTree(tree, filterText).nodes
    autoExpand,     \* useMemo: filterTree(tree, filterText).autoExpand
    visible,        \* useMemo: flattenVisibleNodes(filteredTree, expandedFolders, autoExpand)
    \* the command line (cli.ts main)
    args,           \* process.argv.slice(2)
    exit,           \* not run before main, else how main ended
    \* the page's Refresh indicator (App)
    clientPending,  \* the pendingRefresh state of App
    received,       \* the /api/files requests of App and their responses on the way back
    delivered       \* how many events of its /api/watch stream App has processed

envVars == <<cwd, inputs, recursive, includeHidden, disk, unreadable>>
discoveryVars == <<strict, git, outcome>>
serverVars == <<absoluteFiles, allowedFiles, singleFile, pendingRefresh, sseClients,
                conn, stream, watchRoots, scans, lastReq>>
bufferVars == <<selectedPath, content, editedContent, hasChanges, isEditing, reloadToast,
                fetches, saves, notices, fileText>>
clientVars == <<bufferVars, cursorPath>>
gitVars == <<candidates, filtered>>
listingVars == <<listing, response>>
treeVars == <<apiFiles, sortOrder, filterText, expandedFolders, tree, filteredTree,
              autoExpand, visible>>
cliVars == <<args, exit>>
refreshVars == <<clientPending, received, delivered>>
moreVars == <<cliVars, refreshVars>>
libVars == <<gitVars, listingVars, treeVars, moreVars>>
vars == <<envVars, discoveryVars, serverVars, clientVars, libVars>>

(***************************************************************************)
(* Bounds                                                                  *)
(***************************************************************************)
MaxInputs == 2
MaxSubs == 2
MaxStream == 3
MaxScans == 1
MaxFetches == 1
MaxSaves == 1
MaxCands == 3
MaxFiles == 3

(***************************************************************************)
(* Strings                                                                 *)
(***************************************************************************)
StartsWith(s, prefix) ==
    Len(prefix) <= Len(s) /\ SubSeq(s, 1, Len(prefix)) = prefix

EndsWith(s, suffix) ==
    Len(suffix) <= Len(s) /\ SubSeq(s, Len(s) - Len(suffix) + 1, Len(s)) = suffix

Includes(s, x) == \E i \in 1..Len(s) : s[i] = x

IndexOf(s, x) == IF Includes(s, x) THEN CHOOSE i \in 1..Len(s) : s[i] = x /\ \A j \in 1..(i-1) : s[j] # x ELSE 0

UpperCase == <<"A","B","C","D","E","F","G","H","I","J","K","L","M","N","O","P","Q","R","S","T","U","V","W","X","Y","Z">>
LowerCase == <<"a","b","c","d","e","f","g","h","i","j","k","l","m","n","o","p","q","r","s","t","u","v","w","x","y","z">>

ToLower == [c \in {UpperCase[i] : i \in 1..Len(UpperCase)} |->
               LowerCase[CHOOSE i \in 1..Len(UpperCase) : UpperCase[i] = c]]

UpperSet == DOMAIN ToLower

toLowerCase(s) ==
    [i \in 1..Len(s) |-> IF s[i] \in UpperSet THEN ToLower[s[i]] ELSE s[i]]

RECURSIVE SplitAcc(_, _, _)
SplitAcc(s, cur, acc) ==
    IF s = <<>> THEN Append(acc, cur)
    ELSE IF Head(s) = "/" THEN SplitAcc(Tail(s), <<>>, Append(acc, cur))
    ELSE SplitAcc(Tail(s), Append(cur, Head(s)), acc)

\* s.split("/")
Split(s) == SplitAcc(s, <<>>, <<>>)

\* .filter(Boolean) on a list of strings
FilterBoolean(parts) == SelectSeq(parts, LAMBDA x : x # <<>>)

RECURSIVE Join(_)
\* parts.join("/")
Join(parts) ==
    IF parts = <<>> THEN <<>>
    ELSE IF Len(parts) = 1 THEN parts[1]
    ELSE parts[1] \o <<"/">> \o Join(Tail(parts))

Dot == <<".">>
DotDot == <<".", ".">>
Slash == <<"/">>

(***************************************************************************)
(* node:path (posix)                                                       *)
(***************************************************************************)
RECURSIVE NormSegs(_, _)
NormSegs(parts, acc) ==
    IF parts = <<>> THEN acc
    ELSE LET p == Head(parts) IN
         IF p = <<>> \/ p = Dot THEN NormSegs(Tail(parts), acc)
         ELSE IF p = DotDot
              THEN NormSegs(Tail(parts), IF acc = <<>> THEN acc ELSE SubSeq(acc, 1, Len(acc) - 1))
              ELSE NormSegs(Tail(parts), Append(acc, p))

\* path.resolve(base, p): an absolute, normalized path
resolve(base, p) ==
    LET full == IF p # <<>> /\ Head(p) = "/" THEN p ELSE base \o Slash \o p
    IN  Slash \o Join(NormSegs(Split(full), <<>>))

RECURSIVE CommonLen(_, _)
CommonLen(a, b) ==
    IF a = <<>> \/ b = <<>> \/ Head(a) # Head(b) THEN 0
    ELSE 1 + CommonLen(Tail(a), Tail(b))

\* path.relative(from, to), both made absolute first
relative(from, to) ==
    LET f == NormSegs(Split(from), <<>>)
        t == NormSegs(Split(to), <<>>)
        k == CommonLen(f, t)
        ups == [i \in 1..(Len(f) - k) |-> DotDot]
    IN  Join(ups \o SubSeq(t, k + 1, Len(t)))

\* path.dirname of an absolute, normalized path
dirname(p) ==
    LET parts == NormSegs(Split(p), <<>>)
    IN  IF parts = <<>> THEN Slash ELSE Slash \o Join(SubSeq(parts, 1, Len(parts) - 1))

\* path.basename
basename(p) ==
    LET parts == FilterBoolean(Split(p))
    IN  IF parts = <<>> THEN <<>> ELSE parts[Len(parts)]

(***************************************************************************)
(* file-discovery: the syntactic tests                                     *)
(***************************************************************************)
toPosixPath(p) == [i \in 1..Len(p) |-> IF p[i] = "\\" THEN "/" ELSE p[i]]

GlobChars == {"*", "?", "[", "]", "{", "}", "(", ")", "!"}

isGlobPattern(input) == \E i \in 1..Len(input) : input[i] \in GlobChars

isHiddenPath(pathLike) ==
    LET parts == FilterBoolean(Split(toPosixPath(pathLike)))
    IN  \E i \in 1..Len(parts) :
            StartsWith(parts[i], Dot) /\ parts[i] # Dot /\ parts[i] # DotDot

\* the extension compared without lower-casing
isMarkdownPathCaseSensitive(pathLike) ==
    EndsWith(pathLike, <<".", "m", "d">>)
    \/ EndsWith(pathLike, <<".", "m", "a", "r", "k", "d", "o", "w", "n">>)

isMarkdownPath(pathLike) ==
    LET lower == toLowerCase(pathLike)
    IN  EndsWith(lower, <<".", "m", "d">>)
        \/ EndsWith(lower, <<".", "m", "a", "r", "k", "d", "o", "w", "n">>)

(***************************************************************************)
(* The filesystem the model runs on.  An entry is an absolute path with a  *)
(* kind; `order` is the order in which readdir and the glob scan list      *)
(* entries.                                                                *)
(***************************************************************************)
CwdPlain == <<"/", "w">>
CwdHidden == <<"/", ".", "h">>

RelA == <<"a", ".", "m", "d">>
RelB == <<"B", ".", "M", "a", "r", "k", "d", "o", "w", "n">>
RelH == <<".", "h", ".", "m", "d">>
RelN == <<"n", ".", "t", "x", "t">>
RelS == <<"s">>
RelSC == <<"s", "/", "c", ".", "m", "d">>
RelBS == <<"s", "\\", "c", ".", "m", "d">>
RelG == <<".", "g">>
RelGD == <<".", "g", "/", "d", ".", "m", "d">>
RelX == <<"x", ".", "m", "d">>

RelOrder == <<RelG, RelGD, RelA, RelS, RelSC, RelB, RelH, RelN, RelBS>>
AllRels == {RelOrder[i] : i \in 1..Len(RelOrder)}

KindOfRel(rel) ==
    IF rel \in {RelS, RelG} THEN "dir"
    ELSE IF rel = RelB THEN "symlink"
    ELSE "file"

Abs(c, rel) == c \o Slash \o rel

\* the filesystem under working directory c that holds the entries rels
MkDisk(c, rels) ==
    [p \in {c} \cup {Abs(c, r) : r \in rels} |->
        IF p = c THEN "dir" ELSE KindOfRel(CHOOSE r \in rels : Abs(c, r) = p)]

Cwds == {CwdPlain, CwdHidden}

\* every entry the filesystem under c can hold, in listing order, with its
\* parent directory, its name and its path relative to c
FsEntries ==
    [c \in Cwds |->
        [i \in 1..Len(RelOrder) |->
            LET p == Abs(c, RelOrder[i])
            IN  [path |-> p, parent |-> dirname(p), name |-> basename(p),
                 rel |-> relative(c, p), relSegs |-> Split(relative(c, p))]]]

MkFs(c, d, u) == [cwd |-> c, disk |-> d, unreadable |-> u, order |-> FsEntries[c]]

DiskChoices ==
    { AllRels,
      AllRels \ {RelA},
      {RelS, RelSC, RelBS, RelN} }

\* fs.readdir(dir, {withFileTypes: true}); Failed when it throws
Failed == "failed"
readdir(fs, dir) ==
    IF dir \notin DOMAIN fs.disk \/ fs.disk[dir] # "dir" \/ dir \in fs.unreadable
    THEN [ok |-> FALSE, entries |-> <<>>]
    ELSE LET es == SelectSeq(fs.order, LAMBDA e : e.path \in DOMAIN fs.disk /\ e.parent = dir)
         IN  [ok |-> TRUE,
              entries |-> [i \in 1..Len(es) |-> [name |-> es[i].name, kind |-> fs.disk[es[i].path]]]]

\* fs.lstat(abs): the kind of the entry, Failed when it does not exist
lstat(fs, abs) == IF abs \in DOMAIN fs.disk THEN fs.disk[abs] ELSE Failed

(***************************************************************************)
(* Bun.Glob(pattern).scan({cwd}): the files below cwd whose relative path  *)
(* matches; a wildcard does not match a leading dot.                       *)
(***************************************************************************)
RECURSIVE SegMatch(_, _)
SegMatch(pat, seg) ==
    IF pat = <<>> THEN seg = <<>>
    ELSE IF Head(pat) = "*"
         THEN SegMatch(Tail(pat), seg) \/ (seg # <<>> /\ SegMatch(pat, Tail(seg)))
         ELSE seg # <<>> /\ Head(pat) = Head(seg) /\ SegMatch(Tail(pat), Tail(seg))

SegMatchDot(pat, seg) ==
    /\ (StartsWith(seg, Dot) => StartsWith(pat, Dot))
    /\ SegMatch(pat, seg)

RECURSIVE GlobMatch(_, _)
GlobMatch(pats, segs) ==
    IF pats = <<>> THEN segs = <<>>
    ELSE IF Head(pats) = <<"*", "*">>
         THEN \/ GlobMatch(Tail(pats), segs)
              \/ (segs # <<>> /\ ~StartsWith(Head(segs), Dot) /\ GlobMatch(pats, Tail(segs)))
         ELSE segs # <<>> /\ SegMatchDot(Head(pats), Head(segs)) /\ GlobMatch(Tail(pats), Tail(segs))

GlobScan(fs, pattern) ==
    LET pats == Split(pattern)
        es == SelectSeq(fs.order, LAMBDA e :
                 /\ e.path \in DOMAIN fs.disk
                 /\ fs.disk[e.path] \in {"file", "symlink"}
                 /\ GlobMatch(pats, e.relSegs))
    IN  [i \in 1..Len(es) |-> es[i].rel]

(***************************************************************************)
(* file-discovery                                                          *)
(***************************************************************************)
\* a re-added element moves to the end
SetAddMovesToEnd(out, p) == Append(SelectSeq(out, LAMBDA q : q # p), p)

\* Set.prototype.add on an insertion-ordered set, kept as a sequence
SetAdd(out, p) == IF Includes(out, p) THEN out ELSE Append(out, p)

RECURSIVE scanDirectory(_, _, _, _)
RECURSIVE scanEntries(_, _, _, _, _)

\* the for loop of scanDirectory over the entries left; r is [ok, out]
scanEntries(fs, dir, entries, options, r) ==
    IF entries = <<>> \/ ~r.ok THEN r
    ELSE LET entry == Head(entries)
             rest == Tail(entries)
             absolutePath == resolve(dir, entry.name)
         IN  IF ~options.includeHidden /\ StartsWith(entry.name, Dot)
             THEN scanEntries(fs, dir, rest, options, r)
             ELSE IF entry.kind = "dir"
             THEN IF ~options.recursive
                  THEN scanEntries(fs, dir, rest, options, r)
                  ELSE scanEntries(fs, dir, rest, options,
                                   scanDirectory(fs, absolutePath, options, r.out))
             ELSE IF entry.kind \in {"file", "symlink"} /\ isMarkdownPath(entry.name)
             THEN scanEntries(fs, dir, rest, options, [r EXCEPT !.out = SetAdd(r.out, absolutePath)])
             ELSE scanEntries(fs, dir, rest, options, r)

scanDirectory(fs, dir, options, out) ==
    LET listed == readdir(fs, dir)
    IN  IF ~listed.ok THEN [ok |-> FALSE, out |-> out]
        ELSE scanEntries(fs, dir, listed.entries, options, [ok |-> TRUE, out |-> out])

filterByHidden(paths, options) ==
    IF options.includeHidden THEN paths
    ELSE SelectSeq(paths, LAMBDA p : ~isHiddenPath(p))

filterByMarkdown(paths) == SelectSeq(paths, LAMBDA p : isMarkdownPath(p))

RECURSIVE uniqueFrom(_, _)
uniqueFrom(paths, out) ==
    IF paths = <<>> THEN out
    ELSE IF Includes(out, Head(paths)) THEN uniqueFrom(Tail(paths), out)
    ELSE uniqueFrom(Tail(paths), Append(out, Head(paths)))

uniqueInOrder(paths) == uniqueFrom(paths, <<>>)

RECURSIVE AddAll(_, _)
AddAll(out, paths) ==
    IF paths = <<>> THEN out ELSE AddAll(SetAdd(out, Head(paths)), Tail(paths))

\* a failing check-ignore drops every candidate
filterGitIgnoredFailClosed(absolutePaths, g) ==
    IF absolutePaths = <<>> THEN absolutePaths
    ELSE IF ~g.which THEN absolutePaths
    ELSE IF g.toplevelExit # 0 THEN absolutePaths
    ELSE IF g.repoRoot = <<>> THEN absolutePaths
    ELSE LET n == Len(absolutePaths)
             rels == [i \in 1..n |-> toPosixPath(relative(g.repoRoot, absolutePaths[i]))]
             outside(r) == r = DotDot \/ StartsWith(r, <<".", ".", "/">>)
             relCandidates == SelectSeq(rels, LAMBDA r : ~outside(r))
             relToAbs == {relCandidates[i] : i \in 1..Len(relCandidates)}
             ignoredRel == SelectSeq(relCandidates, LAMBDA r : r \in g.ignored)
             exitCode == IF g.checkFails THEN 128 ELSE IF ignoredRel = <<>> THEN 1 ELSE 0
             ignoredSet == {ignoredRel[i] : i \in 1..Len(ignoredRel)}
             keep == {i \in 1..n : IF rels[i] \notin relToAbs THEN TRUE ELSE rels[i] \notin ignoredSet}
             RECURSIVE pick(_)
             pick(i) == IF i > n THEN <<>>
                        ELSE IF i \in keep THEN <<absolutePaths[i]>> \o pick(i + 1)
                        ELSE pick(i + 1)
         IN  IF relCandidates = <<>> THEN absolutePaths
             ELSE IF exitCode # 0 /\ exitCode # 1 THEN <<>>
             ELSE pick(1)

\* what git answers: g.which (the tool is installed), g.toplevelExit and
\* g.repoRoot (rev-parse --show-toplevel), g.checkFails (check-ignore exits
\* with a fatal status), g.ignored (the repository-relative paths its rules ignore)
filterGitIgnored(absolutePaths, g) ==
    IF absolutePaths = <<>> THEN absolutePaths
    ELSE IF ~g.which THEN absolutePaths
    ELSE IF g.toplevelExit # 0 THEN absolutePaths
    ELSE IF g.repoRoot = <<>> THEN absolutePaths
    ELSE LET n == Len(absolutePaths)
             \* rel of each path, computed at lines 97 and 119
             rels == [i \in 1..n |-> toPosixPath(relative(g.repoRoot, absolutePaths[i]))]
             outside(r) == r = DotDot \/ StartsWith(r, <<".", ".", "/">>)
             relCandidates == SelectSeq(rels, LAMBDA r : ~outside(r))
             relToAbs == {relCandidates[i] : i \in 1..Len(relCandidates)}
             ignoredRel == SelectSeq(relCandidates, LAMBDA r : r \in g.ignored)
             exitCode == IF g.checkFails THEN 128 ELSE IF ignoredRel = <<>> THEN 1 ELSE 0
             ignoredSet == {ignoredRel[i] : i \in 1..Len(ignoredRel)}
             keep == {i \in 1..n : IF rels[i] \notin relToAbs THEN TRUE ELSE rels[i] \notin ignoredSet}
             RECURSIVE pick(_)
             pick(i) == IF i > n THEN <<>>
                        ELSE IF i \in keep THEN <<absolutePaths[i]>> \o pick(i + 1)
                        ELSE pick(i + 1)
         IN  IF relCandidates = <<>> THEN absolutePaths
             ELSE IF exitCode # 0 /\ exitCode # 1 THEN absolutePaths
             ELSE pick(1)

\* a missing input aborts the pass whatever the mode
inputNotFoundAlwaysThrows(options, r) == [r EXCEPT !.ok = FALSE, !.err = "Input not found"]

\* the catch of lstat: throw in strict mode (strict = options.strict !== false), else continue
inputNotFound(options, r) ==
    IF options.strict # "false"
    THEN [r EXCEPT !.ok = FALSE, !.err = "Input not found"]
    ELSE r

\* one iteration of the for loop of discoverMarkdownFiles; r is [ok, err, out]
discoverInput(fs, input, options, r) ==
    IF isGlobPattern(input)
    THEN LET scanned == GlobScan(fs, input)
             matches == [i \in 1..Len(scanned) |-> resolve(options.cwd, scanned[i])]
         IN  [r EXCEPT !.out = AddAll(r.out, filterByMarkdown(filterByHidden(matches, options)))]
    ELSE LET absolutePath == resolve(options.cwd, input)
             stat == lstat(fs, absolutePath)
         IN  IF stat = Failed
             THEN inputNotFound(options, r)
             ELSE IF stat = "dir"
             THEN IF ~options.includeHidden /\ isHiddenPath(input) THEN r
                  ELSE LET s == scanDirectory(fs, absolutePath, options, r.out)
                       IN  IF s.ok THEN [r EXCEPT !.out = s.out]
                           ELSE [r EXCEPT !.ok = FALSE, !.err = "readdir"]
             ELSE IF stat \in {"file", "symlink"} /\ isMarkdownPath(absolutePath)
             THEN [r EXCEPT !.out = SetAdd(r.out, absolutePath)]
             ELSE r

RECURSIVE discoverLoop(_, _, _, _)
discoverLoop(fs, ins, options, r) ==
    IF ins = <<>> \/ ~r.ok THEN r
    ELSE discoverLoop(fs, Tail(ins), options, discoverInput(fs, Head(ins), options, r))

\* [ok, err, paths]: ok = FALSE when the call throws
discoverMarkdownFiles(ins, options, fs, g) ==
    LET r == discoverLoop(fs, ins, options, [ok |-> TRUE, err |-> "", out |-> <<>>])
    IN  IF ~r.ok THEN [ok |-> FALSE, err |-> r.err, paths |-> <<>>]
        ELSE [ok |-> TRUE, err |-> "", paths |-> uniqueInOrder(filterGitIgnored(r.out, g))]

(***************************************************************************)
(* server: the allowed file set, the broadcast, the watchers               *)
(***************************************************************************)
Keys(m) == {m[i][1] : i \in 1..Len(m)}
Values(m) == {m[i][2] : i \in 1..Len(m)}
Has(m, k) == \E i \in 1..Len(m) : m[i][1] = k
Get(m, k) == m[CHOOSE i \in 1..Len(m) : m[i][1] = k][2]

\* the last absolute path of a relative path wins
MapSetAlways(m, k, v) ==
    IF Has(m, k) THEN [i \in 1..Len(m) |-> IF m[i][1] = k THEN <<k, v>> ELSE m[i]]
    ELSE Append(m, <<k, v>>)

\* if (!allowed.has(rel)) allowed.set(rel, abs)
MapSetIfAbsent(m, k, v) == IF Has(m, k) THEN m ELSE Append(m, <<k, v>>)

RECURSIVE buildAllowedFrom(_, _, _)
buildAllowedFrom(c, files, allowed) ==
    IF files = <<>> THEN allowed
    ELSE buildAllowedFrom(c, Tail(files),
             MapSetIfAbsent(allowed, toPosixPath(relative(c, Head(files))), Head(files)))

buildAllowedFiles(c, files) == buildAllowedFrom(c, files, <<>>)

EvReady == [type |-> "ready"]
EvFsChanged(b) == [type |-> "fs-changed", pendingRefresh |-> b]
EvFileChanged(rel) == [type |-> "file-changed", path |-> rel]

\* controller.enqueue throws unless the stream is open
CanEnqueue(cn, c) == cn[c] = "open"

\* a broadcast whose catch keeps the failing controller in the set
broadcastKeepsFailed(clients, cn, st, ev) ==
    [clients |-> clients,
     stream |-> [c \in DOMAIN st |->
                    IF c \in clients /\ CanEnqueue(cn, c) THEN Append(st[c], ev) ELSE st[c]]]

\* broadcast(event, data): [clients, stream] after the for loop
broadcast(clients, cn, st, ev) ==
    [clients |-> {c \in clients : CanEnqueue(cn, c)},
     stream |-> [c \in DOMAIN st |->
                    IF c \in clients /\ CanEnqueue(cn, c) THEN Append(st[c], ev) ELSE st[c]]]

\* the merge of the discovered paths into absoluteFiles replaced by them alone
mergeDiscoveredReplaces(files, discovered) == discovered

\* for (const abs of discovered) absoluteFiles.add(abs)
mergeDiscovered(files, discovered) == AddAll(files, discovered)

\* a watchRoots.set that lets the last input decide
addWatchRootLastWins(roots, absRoot, rec) == MapSetAlways(roots, absRoot, rec)

\* setupWatchers: addWatchRoot on the Map kept as a sequence of [root, recursive]
addWatchRoot(roots, absRoot, rec) ==
    IF Has(roots, absRoot) /\ Get(roots, absRoot) = TRUE THEN roots
    ELSE IF Has(roots, absRoot) /\ Get(roots, absRoot) = FALSE /\ rec = FALSE THEN roots
    ELSE MapSetAlways(roots, absRoot, rec \/ (IF Has(roots, absRoot) THEN Get(roots, absRoot) ELSE FALSE))

\* pattern.search(/[*?[\]{}()!]/): 0 when there is none
FirstGlobChar(pattern) ==
    IF isGlobPattern(pattern)
    THEN CHOOSE i \in 1..Len(pattern) :
             pattern[i] \in GlobChars /\ \A j \in 1..(i - 1) : pattern[j] \notin GlobChars
    ELSE 0

LastIndexOfSlash(s) ==
    IF Includes(s, "/")
    THEN CHOOSE i \in 1..Len(s) : s[i] = "/" /\ \A j \in (i + 1)..Len(s) : s[j] # "/"
    ELSE 0

globBaseDir(pattern) ==
    LET idx == FirstGlobChar(pattern)
        prefix == IF idx = 0 THEN pattern ELSE SubSeq(pattern, 1, idx - 1)
        normalized == toPosixPath(prefix)
        lastSlash == LastIndexOfSlash(normalized)
        base == IF lastSlash = 0 THEN Dot ELSE SubSeq(normalized, 1, lastSlash - 1)
    IN  IF base = <<>> THEN Dot ELSE base

IncludesStarStar(input) == \E i \in 1..(Len(input) - 1) : input[i] = "*" /\ input[i + 1] = "*"

RECURSIVE watchRootsFrom(_, _, _, _, _)
\* the for loop of setupWatchers over config.inputs
watchRootsFrom(fs, ins, c, rec, roots) ==
    IF ins = <<>> THEN roots
    ELSE LET input == Head(ins)
             abs == resolve(c, input)
             lst == lstat(fs, abs)
         IN  IF isGlobPattern(input)
             THEN watchRootsFrom(fs, Tail(ins), c, rec,
                      addWatchRoot(roots, resolve(c, globBaseDir(input)), IncludesStarStar(input)))
             ELSE IF lst = Failed THEN watchRootsFrom(fs, Tail(ins), c, rec, roots)
             ELSE IF lst = "dir"
             THEN watchRootsFrom(fs, Tail(ins), c, rec, addWatchRoot(roots, abs, rec))
             ELSE watchRootsFrom(fs, Tail(ins), c, rec, addWatchRoot(roots, dirname(abs), FALSE))

setupWatchers(fs, ins, c, rec) ==
    LET roots == watchRootsFrom(fs, ins, c, rec, <<>>)
    IN  IF roots = <<>> THEN addWatchRoot(roots, c, rec) ELSE roots

(***************************************************************************)
(* The discovery pass on its own: every input list, option set and         *)
(* environment within the bounds, and one call of discoverMarkdownFiles.   *)
(***************************************************************************)
TokA == RelA
TokS == RelS
TokCwd == Dot
TokStar == <<"*", ".", "m", "d">>
TokX == RelX
TokH == RelH
TokG == RelG
TokGStar == <<".", "g", "/", "*", ".", "m", "d">>
TokDeep == <<"*", "*", "/", "*", ".", "m", "d">>

Tokens == {TokA, TokCwd, TokStar, TokX, TokH, TokG, TokGStar}

InputLists == UNION {[1..n -> Tokens] : n \in 1..MaxInputs}

GitEnvs(c) ==
    { [which |-> FALSE, toplevelExit |-> 0, repoRoot |-> <<>>, checkFails |-> FALSE, ignored |-> {}],
      [which |-> TRUE, toplevelExit |-> 128, repoRoot |-> <<>>, checkFails |-> FALSE, ignored |-> {}],
      [which |-> TRUE, toplevelExit |-> 0, repoRoot |-> c, checkFails |-> FALSE, ignored |-> {}],
      [which |-> TRUE, toplevelExit |-> 0, repoRoot |-> c, checkFails |-> FALSE, ignored |-> {RelA}],
      [which |-> TRUE, toplevelExit |-> 0, repoRoot |-> c, checkFails |-> TRUE, ignored |-> {RelA}] }

Options == [cwd |-> cwd, recursive |-> recursive, includeHidden |-> includeHidden, strict |-> strict]

NoOutcome == [done |-> FALSE, ok |-> FALSE, err |-> "", paths |-> <<>>]

Subs == 1..MaxSubs

NoRequest == [method |-> "", path |-> <<>>, body |-> "", status |-> 0, io |-> <<>>]

NoPath == <<>>

\* the files the client can open, and the texts they can hold: one that
\* comes from outside the app and one that the user types
ClientPaths == {RelA, RelSC}
DiskTexts == {"d1"}
UserTexts == {"u1"}

\* the files that other programs write while the page is open
ExternallyWritten == {RelA}

BufferNotStarted ==
    /\ selectedPath = NoPath
    /\ content = ""
    /\ editedContent = ""
    /\ hasChanges = FALSE
    /\ isEditing = FALSE
    /\ reloadToast = FALSE
    /\ fetches = {}
    /\ saves = {}
    /\ notices = {}
    /\ fileText = [p \in ClientPaths |-> "d1"]

ClientNotStarted ==
    /\ BufferNotStarted
    /\ cursorPath = NoPath

NotFiltered == [done |-> FALSE, paths |-> <<>>]

GitNotStarted ==
    /\ candidates = <<>>
    /\ filtered = NotFiltered

NoListing == [pc |-> "idle", todo |-> <<>>, of |-> <<>>, files |-> <<>>]
NotListed == [done |-> FALSE]

ListingNotStarted ==
    /\ listing = NoListing
    /\ response = NotListed

TreeNotStarted ==
    /\ apiFiles = <<>>
    /\ sortOrder = "name-asc"
    /\ filterText = <<>>
    /\ expandedFolders = {}
    /\ tree = <<>>
    /\ filteredTree = <<>>
    /\ autoExpand = {}
    /\ visible = <<>>

NoArgs == <<>>
NotRun == [done |-> FALSE]

CliNotStarted ==
    /\ args = NoArgs
    /\ exit = NotRun

RefreshNotStarted ==
    /\ clientPending = FALSE
    /\ received = {}
    /\ delivered = 0

MoreNotStarted ==
    /\ CliNotStarted
    /\ RefreshNotStarted

LibNotStarted ==
    /\ GitNotStarted
    /\ ListingNotStarted
    /\ TreeNotStarted
    /\ MoreNotStarted

ServerNotStarted ==
    /\ absoluteFiles = <<>>
    /\ allowedFiles = <<>>
    /\ singleFile = FALSE
    /\ pendingRefresh = FALSE
    /\ sseClients = {}
    /\ conn = [c \in Subs |-> "new"]
    /\ stream = [c \in Subs |-> <<>>]
    /\ watchRoots = <<>>
    /\ scans = {}
    /\ lastReq = NoRequest

InitDiscovery ==
    /\ cwd \in Cwds
    /\ inputs \in InputLists
    /\ recursive \in BOOLEAN
    /\ includeHidden \in BOOLEAN
    /\ strict \in {"true", "false", "undefined"}
    /\ \E rels \in DiskChoices : disk = MkDisk(cwd, rels)
    /\ unreadable \in {{}, {Abs(cwd, RelS)}}
    /\ git \in {g \in GitEnvs(cwd) : ~g.which \/ (g.ignored = {RelA} /\ ~g.checkFails)}
    /\ outcome = NoOutcome
    /\ ServerNotStarted
    /\ ClientNotStarted
    /\ LibNotStarted

\* cli.ts main / server rescan: await discoverMarkdownFiles(inputs, options)
Discover ==
    /\ ~outcome.done
    /\ LET r == discoverMarkdownFiles(inputs, Options, MkFs(cwd, disk, unreadable), git)
       IN  outcome' = [done |-> TRUE, ok |-> r.ok, err |-> r.err, paths |-> r.paths]
    /\ UNCHANGED <<envVars, strict, git, serverVars, clientVars, libVars>>

NextDiscovery == Discover

SpecDiscovery == InitDiscovery /\ [][NextDiscovery]_vars

(***************************************************************************)
(* Properties of the discovery pass                                        *)
(***************************************************************************)
Fs == MkFs(cwd, disk, unreadable)
PathSet == {outcome.paths[i] : i \in 1..Len(outcome.paths)}
Returned == outcome.done /\ outcome.ok

NoDuplicates(s) == \A i, j \in 1..Len(s) : i # j => s[i] # s[j]

RECURSIVE Concat(_)
Concat(ss) == IF ss = <<>> THEN <<>> ELSE Head(ss) \o Concat(Tail(ss))

\* what one input alone hands to the discovered set, in the order it does
Contribution(input) ==
    discoverInput(Fs, input, Options, [ok |-> TRUE, err |-> "", out |-> <<>>]).out

\* every path handed to the discovered set, over all inputs in their order
Stream == Concat([k \in 1..Len(inputs) |-> Contribution(inputs[k])])

FirstIndex(s, p) == CHOOSE i \in 1..Len(s) : s[i] = p /\ \A j \in 1..(i - 1) : s[j] # p

\* C7: the result of discovery holds each absolute path at most once, and
\* its paths are in the order in which they were first discovered.
C7_UniqueInFirstSeenOrder ==
    Returned =>
        /\ NoDuplicates(outcome.paths)
        /\ \A i \in 1..Len(outcome.paths) : Includes(Stream, outcome.paths[i])
        /\ \A i, j \in 1..Len(outcome.paths) :
               i < j => FirstIndex(Stream, outcome.paths[i]) < FirstIndex(Stream, outcome.paths[j])

\* two inputs resolved to the same path, found again after another path
C7_Witness ==
    /\ Returned
    /\ Len(outcome.paths) >= 2
    /\ ~NoDuplicates(Stream)
    /\ \E i, j \in 1..Len(Stream) : i + 1 < j /\ Stream[i] = Stream[j]

IsLiteralDirectory(input) ==
    ~isGlobPattern(input) /\ lstat(Fs, resolve(cwd, input)) = "dir"

\* the entries of the model's filesystem that carry a markdown extension
MarkdownRels == {RelA, RelB, RelH, RelSC, RelBS, RelGD}

\* the markdown files and symlinks below dir: direct entries, deeper ones
\* iff recursive, none with a dotted name on the way unless includeHidden
ExpectedOfDirectory(dir) ==
    { e.path : e \in { FsEntries[cwd][i] : i \in
        { i \in 1..Len(RelOrder) :
            LET e == FsEntries[cwd][i]
                segs == Split(relative(dir, e.path))
            IN  /\ e.path \in DOMAIN disk
                /\ disk[e.path] \in {"file", "symlink"}
                /\ e.rel \in MarkdownRels
                /\ segs[1] # DotDot
                /\ (recursive \/ Len(segs) = 1)
                /\ (includeHidden \/ \A k \in 1..Len(segs) : ~StartsWith(segs[k], Dot)) } } }

\* the ignore filter ran and git reported p
GitIgnores(p) ==
    /\ git.which /\ git.toplevelExit = 0 /\ git.repoRoot # <<>> /\ ~git.checkFails
    /\ toPosixPath(relative(git.repoRoot, p)) \in git.ignored

\* C8 as stated: for a literal directory input, discovery returns exactly
\* the markdown files and symlinks of the directory (sub-directories iff
\* recursive, dotted entries only with includeHidden).
C8_Original ==
    (Returned /\ Len(inputs) = 1 /\ IsLiteralDirectory(inputs[1])) =>
        PathSet = ExpectedOfDirectory(resolve(cwd, inputs[1]))

\* C8 amended: ... exactly those of them that the ignore filter does not
\* exclude, and nothing when the input itself has a dotted segment and
\* includeHidden is not set.
C8_DirectoryScan ==
    (Returned /\ Len(inputs) = 1 /\ IsLiteralDirectory(inputs[1])) =>
        PathSet = IF ~includeHidden /\ \E k \in 1..Len(Split(inputs[1])) :
                        LET seg == Split(inputs[1])[k]
                        IN  StartsWith(seg, Dot) /\ seg # Dot /\ seg # DotDot
                  THEN {}
                  ELSE {p \in ExpectedOfDirectory(resolve(cwd, inputs[1])) : ~GitIgnores(p)}

\* a recursive scan of the working directory that returned a file of a
\* sub-directory and a symlink, skipped a dotted entry and lost a file to git
C8_Witness ==
    /\ Returned /\ inputs = <<TokCwd>> /\ recursive /\ ~includeHidden
    /\ Abs(cwd, RelSC) \in PathSet
    /\ Abs(cwd, RelB) \in PathSet
    /\ Abs(cwd, RelH) \in DOMAIN disk /\ Abs(cwd, RelH) \notin PathSet
    /\ Abs(cwd, RelA) \in DOMAIN disk /\ Abs(cwd, RelA) \notin PathSet

IsMissingLiteral(input) ==
    ~isGlobPattern(input) /\ resolve(cwd, input) \notin DOMAIN disk

\* an input matches a file: it names it, it is a directory above it, or it
\* is a pattern the file's path relative to the working directory matches
Matches(input, e) ==
    IF isGlobPattern(input) THEN GlobMatch(Split(input), e.relSegs)
    ELSE \/ resolve(cwd, input) = e.path
         \/ /\ IsLiteralDirectory(input)
            /\ LET segs == Split(relative(resolve(cwd, input), e.path))
               IN  segs[1] # DotDot /\ (recursive \/ Len(segs) = 1)

HiddenBelowCwd(p) ==
    LET segs == Split(relative(cwd, p))
    IN  \E k \in 1..Len(segs) : StartsWith(segs[k], Dot) /\ segs[k] # Dot /\ segs[k] # DotDot

\* C9 as stated: with includeHidden false no returned path has a dotted
\* segment relative to the working directory, whichever input produced it,
\* and a markdown file without one that an input matches is not dropped by
\* the hidden-file rule.
C9_Claim ==
    (Returned /\ ~includeHidden) =>
        /\ \A p \in PathSet : ~HiddenBelowCwd(p)
        /\ \A i \in 1..Len(RelOrder) :
               LET e == FsEntries[cwd][i]
               IN  ( /\ e.path \in DOMAIN disk
                     /\ disk[e.path] \in {"file", "symlink"}
                     /\ e.rel \in MarkdownRels
                     /\ ~HiddenBelowCwd(e.path)
                     /\ ~GitIgnores(e.path)
                     /\ \E k \in 1..Len(inputs) : Matches(inputs[k], e) )
                   => e.path \in PathSet

\* C10: a literal input that does not exist makes discovery fail, with the
\* not-found error and no result, unless strict is false; with strict
\* false it is skipped and the other inputs are processed as if it were
\* not in the list.
C10_MissingLiteral ==
    (outcome.done /\ \E k \in 1..Len(inputs) : IsMissingLiteral(inputs[k])) =>
        LET first == CHOOSE k \in 1..Len(inputs) :
                        IsMissingLiteral(inputs[k]) /\ \A j \in 1..(k - 1) : ~IsMissingLiteral(inputs[j])
            before == discoverMarkdownFiles(SubSeq(inputs, 1, first - 1), Options, Fs, git)
            others == discoverMarkdownFiles(SelectSeq(inputs, LAMBDA x : ~IsMissingLiteral(x)), Options, Fs, git)
        IN  IF strict = "false"
            THEN outcome.ok = others.ok /\ outcome.paths = others.paths
            ELSE /\ ~outcome.ok
                 /\ outcome.paths = <<>>
                 /\ (before.ok => outcome.err = "Input not found")

\* a tolerant pass skipped a missing first input and returned the files of the next
C10_Witness ==
    /\ outcome.done /\ outcome.ok /\ strict = "false"
    /\ Len(inputs) >= 2 /\ IsMissingLiteral(inputs[1]) /\ ~IsMissingLiteral(inputs[2])
    /\ outcome.paths # <<>>

\* a pass in the default mode failed on a missing input after a found one
C10_StrictWitness ==
    /\ outcome.done /\ ~outcome.ok /\ strict = "undefined"
    /\ Len(inputs) >= 2 /\ ~IsMissingLiteral(inputs[1]) /\ IsMissingLiteral(inputs[2])
    /\ outcome.err = "Input not found"

(***************************************************************************)
(* The server: started by cli.ts main on the files of a strict discovery   *)
(* pass, then serving requests while the filesystem changes under it.      *)
(***************************************************************************)
ServerInputs == {<<TokA>>, <<TokCwd>>, <<TokH>>}

\* what is on disk when the server starts
ServerDisks == {AllRels, AllRels \ {RelA}}

\* the files that appear and disappear while the server runs
Volatile == {RelA}

NoGit == [which |-> FALSE, toplevelExit |-> 0, repoRoot |-> <<>>, checkFails |-> FALSE, ignored |-> {}]

RescanOptions == [cwd |-> cwd, recursive |-> recursive, includeHidden |-> includeHidden, strict |-> "false"]

\* cli.ts main, then startServer(config): the state after construction
Init ==
    /\ cwd = CwdPlain
    /\ inputs \in ServerInputs
    /\ recursive = TRUE
    /\ includeHidden = FALSE
    /\ \E rels \in ServerDisks : disk = MkDisk(cwd, rels)
    /\ unreadable = {}
    /\ strict = "undefined"
    /\ git = NoGit
    /\ LET r == discoverMarkdownFiles(inputs, Options, MkFs(cwd, disk, unreadable), git)
       IN  /\ r.ok /\ r.paths # <<>>
           /\ outcome = [done |-> TRUE, ok |-> r.ok, err |-> r.err, paths |-> r.paths]
    /\ absoluteFiles = AddAll(<<>>, outcome.paths)
    /\ allowedFiles = buildAllowedFiles(cwd, absoluteFiles)
    /\ singleFile = (Len(allowedFiles) = 1)
    /\ pendingRefresh = FALSE
    /\ sseClients = {}
    /\ conn = [c \in Subs |-> "new"]
    /\ stream = [c \in Subs |-> <<>>]
    /\ watchRoots = setupWatchers(MkFs(cwd, disk, unreadable), inputs, cwd, recursive)
    /\ scans = {}
    /\ lastReq = NoRequest
    /\ ClientNotStarted
    /\ LibNotStarted

Fits(st) == \A c \in Subs : Len(st[c]) <= MaxStream

\* a file appears on disk
CreateFile(rel) ==
    /\ Abs(cwd, rel) \notin DOMAIN disk
    /\ dirname(Abs(cwd, rel)) \in DOMAIN disk
    /\ disk' = [p \in DOMAIN disk \cup {Abs(cwd, rel)} |->
                    IF p = Abs(cwd, rel) THEN KindOfRel(rel) ELSE disk[p]]
    /\ UNCHANGED <<cwd, inputs, recursive, includeHidden, unreadable, discoveryVars, serverVars,
                   clientVars, libVars>>

\* a file disappears from disk
DeleteFile(rel) ==
    /\ Abs(cwd, rel) \in DOMAIN disk
    /\ disk' = [p \in DOMAIN disk \ {Abs(cwd, rel)} |-> disk[p]]
    /\ UNCHANGED <<cwd, inputs, recursive, includeHidden, unreadable, discoveryVars, serverVars,
                   clientVars, libVars>>

\* GET /api/watch: start(controller)
Connect(c) ==
    /\ conn[c] = "new"
    /\ conn' = [conn EXCEPT ![c] = "open"]
    /\ sseClients' = sseClients \cup {c}
    /\ stream' = [stream EXCEPT ![c] =
                     IF pendingRefresh THEN <<EvReady, EvFsChanged(TRUE)>> ELSE <<EvReady>>]
    /\ UNCHANGED <<envVars, discoveryVars, clientVars, libVars, absoluteFiles, allowedFiles, singleFile,
                   pendingRefresh, watchRoots, scans, lastReq>>

\* GET /api/watch: cancel(reason)
Cancel(c) ==
    /\ conn[c] \in {"open", "broken"}
    /\ conn' = [conn EXCEPT ![c] = "new"]
    /\ stream' = [stream EXCEPT ![c] = <<>>]
    /\ sseClients' = sseClients \ {c}
    /\ UNCHANGED <<envVars, discoveryVars, clientVars, libVars, absoluteFiles, allowedFiles, singleFile,
                   pendingRefresh, watchRoots, scans, lastReq>>

\* the stream of a connection stops accepting chunks before cancel has run
Break(c) ==
    /\ conn[c] = "open"
    /\ conn' = [conn EXCEPT ![c] = "broken"]
    /\ UNCHANGED <<envVars, discoveryVars, clientVars, libVars, absoluteFiles, allowedFiles, singleFile,
                   pendingRefresh, sseClients, stream, watchRoots, scans, lastReq>>

\* GET /api/watch: the setInterval callback (the ping is a comment, not an event)
Ping(c) ==
    /\ conn[c] \in {"open", "broken"}
    /\ sseClients' = IF CanEnqueue(conn, c) THEN sseClients ELSE sseClients \ {c}
    /\ UNCHANGED <<envVars, discoveryVars, clientVars, libVars, absoluteFiles, allowedFiles, singleFile,
                   pendingRefresh, conn, stream, watchRoots, scans, lastReq>>

\* the names fs.watch can report for a root: the entries below it, direct
\* children only unless the root is watched recursively
WatchedRels == {RelA, RelH, RelN, RelX}

WatchNames(root, rec) ==
    { relative(root, Abs(cwd, rel)) : rel \in
        { rel \in WatchedRels :
            LET segs == Split(relative(root, Abs(cwd, rel)))
            IN  segs[1] # DotDot /\ (rec \/ Len(segs) = 1) } }

NoName == <<>>

\* the flag not consulted: every call broadcasts fs-changed again
maybeSetPendingRefreshAlways(pending, clients, cn, st) ==
    LET b == broadcast(clients, cn, st, EvFsChanged(TRUE))
    IN  [pendingRefresh |-> TRUE, clients |-> b.clients, stream |-> b.stream]

\* maybeSetPendingRefresh: [pendingRefresh, clients, stream]
maybeSetPendingRefresh(pending, clients, cn, st) ==
    IF pending THEN [pendingRefresh |-> pending, clients |-> clients, stream |-> st]
    ELSE LET b == broadcast(clients, cn, st, EvFsChanged(TRUE))
         IN  [pendingRefresh |-> TRUE, clients |-> b.clients, stream |-> b.stream]

\* the callback of watch(absRoot, {recursive}, ...): [pendingRefresh, clients, stream]
watchCallback(absRoot, name, allowed, pending, clients, cn, st) ==
    LET same == [pendingRefresh |-> pending, clients |-> clients, stream |-> st]
        absPath == resolve(absRoot, name)
        relPath == toPosixPath(relative(cwd, absPath))
    IN  IF name = NoName THEN maybeSetPendingRefresh(pending, clients, cn, st)
        ELSE IF ~includeHidden /\ isHiddenPath(name) THEN same
        ELSE IF Has(allowed, relPath)
        THEN LET b == broadcast(clients, cn, st, EvFileChanged(relPath))
             IN  [pendingRefresh |-> pending, clients |-> b.clients, stream |-> b.stream]
        ELSE IF isMarkdownPath(absPath) THEN maybeSetPendingRefresh(pending, clients, cn, st)
        ELSE same

WatchEvent(i, name) ==
    /\ LET r == watchCallback(watchRoots[i][1], name, allowedFiles, pendingRefresh,
                              sseClients, conn, stream)
       IN  /\ Fits(r.stream)
           /\ pendingRefresh' = r.pendingRefresh
           /\ sseClients' = r.clients
           /\ stream' = r.stream
    /\ UNCHANGED <<envVars, discoveryVars, clientVars, libVars, absoluteFiles, allowedFiles, singleFile,
                   conn, watchRoots, scans, lastReq>>

\* the directories that can be unreadable while a rescan runs
Unreadables == {{}, {cwd}}

\* GET /api/files?refresh=1 up to the await inside rescan: the discovery
\* pass reads the filesystem, where u is unreadable at that moment
rescanStart(u) ==
    /\ Cardinality(scans) < MaxScans
    /\ LET r == discoverMarkdownFiles(inputs, RescanOptions, MkFs(cwd, disk, u), git)
       IN  scans' = scans \cup {[ok |-> r.ok, paths |-> r.paths]}
    /\ UNCHANGED <<envVars, discoveryVars, clientVars, gitVars, listingVars, treeVars, cliVars,
                   absoluteFiles, allowedFiles, singleFile, pendingRefresh, sseClients, conn, stream,
                   watchRoots, lastReq>>

\* a refresh request of a client that the model does not follow further
RescanStart(u) == rescanStart(u) /\ UNCHANGED refreshVars

\* a rescan that clears the flag whether or not the discovery pass threw
rescanClearsOnFailure(files, pending, r) ==
    IF r.ok
    THEN [ok |-> TRUE, files |-> mergeDiscovered(files, r.paths), pendingRefresh |-> FALSE]
    ELSE [ok |-> FALSE, files |-> files, pendingRefresh |-> FALSE]

\* a rescan that adds the files but leaves the flag as it is
rescanKeepsPending(files, pending, r) ==
    IF r.ok
    THEN [ok |-> TRUE, files |-> mergeDiscovered(files, r.paths), pendingRefresh |-> pending]
    ELSE [ok |-> FALSE, files |-> files, pendingRefresh |-> pending]

\* rescan from the return of the discovery pass r: [ok, files, pendingRefresh]
rescan(files, pending, r) ==
    IF r.ok
    THEN [ok |-> TRUE, files |-> mergeDiscovered(files, r.paths), pendingRefresh |-> FALSE]
    ELSE [ok |-> FALSE, files |-> files, pendingRefresh |-> pending]

\* GET /api/files?refresh=1 from the return of the discovery pass: the rest
\* of rescan, then `if (ok) broadcast("fs-changed", {pendingRefresh: false})`
rescanFinish(r) ==
    /\ scans' = scans \ {r}
    /\ LET done == rescan(absoluteFiles, pendingRefresh, r)
           b == IF done.ok THEN broadcast(sseClients, conn, stream, EvFsChanged(FALSE))
                ELSE [clients |-> sseClients, stream |-> stream]
       IN  /\ Fits(b.stream)
           /\ absoluteFiles' = done.files
           /\ allowedFiles' = IF done.ok THEN buildAllowedFiles(cwd, done.files) ELSE allowedFiles
           /\ singleFile' = IF done.ok THEN Len(allowedFiles') = 1 ELSE singleFile
           /\ pendingRefresh' = done.pendingRefresh
           /\ sseClients' = b.clients
           /\ stream' = b.stream
    /\ UNCHANGED <<envVars, discoveryVars, clientVars, gitVars, listingVars, treeVars, cliVars,
                   conn, watchRoots, lastReq>>

RescanFinish(r) == rescanFinish(r) /\ UNCHANGED refreshVars

\* what a client can send as ?path=
RelAlias == <<".", "/", "a", ".", "m", "d">>
ReqPaths == {<<>>, RelA, RelN, RelX, RelAlias}
ReqBodies == {"string", "nonstring", "badjson"}

\* the first allowed file for every request without a path, whatever the flag
requestRelPathFirst(requested, single, allowed) ==
    IF requested # <<>> THEN requested
    ELSE IF allowed # <<>> THEN allowed[1][1] ELSE <<>>

\* `requestedPath ?? (singleFile ? [...allowedFiles.keys()][0] : undefined)`;
\* an empty ?path= counts as none
requestRelPath(requested, single, allowed) ==
    IF requested # <<>> THEN requested
    ELSE IF single THEN allowed[1][1] ELSE <<>>

\* the lookup of the requested path left out: the path is resolved against cwd
fileRouteUnchecked(method, requested, body, single, allowed, d) ==
    LET absPath == resolve(cwd, requested)
    IN  [method |-> method, path |-> requested, body |-> body,
         status |-> IF absPath \in DOMAIN d THEN 200 ELSE 404, io |-> absPath]

\* /api/file GET and PUT: the response and the file touched (io)
fileRoute(method, requested, body, single, allowed, d) ==
    LET relPath == requestRelPath(requested, single, allowed)
        resp(status, io) == [method |-> method, path |-> requested, body |-> body,
                             status |-> status, io |-> io]
    IN  IF relPath = <<>> THEN resp(400, <<>>)
        ELSE IF ~Has(allowed, relPath) THEN resp(403, <<>>)
        ELSE LET absPath == Get(allowed, relPath)
             IN  IF method = "GET"
                 THEN IF absPath \notin DOMAIN d THEN resp(404, absPath) ELSE resp(200, absPath)
                 ELSE IF body = "badjson" THEN resp(500, <<>>)
                 ELSE IF body = "nonstring" THEN resp(400, <<>>)
                 ELSE resp(200, absPath)

FileRequest(method, requested, body) ==
    /\ lastReq' = fileRoute(method, requested, body, singleFile, allowedFiles, disk)
    /\ disk' = IF lastReq'.method = "PUT" /\ lastReq'.status = 200 /\ lastReq'.io \notin DOMAIN disk
               THEN [p \in DOMAIN disk \cup {lastReq'.io} |->
                        IF p = lastReq'.io THEN "file" ELSE disk[p]]
               ELSE disk
    /\ UNCHANGED <<cwd, inputs, recursive, includeHidden, unreadable, discoveryVars, clientVars, libVars,
                   absoluteFiles, allowedFiles, singleFile, pendingRefresh, sseClients,
                   conn, stream, watchRoots, scans>>

\* the server with its subscribers, the watchers and the rescans
Next ==
    \/ \E rel \in Volatile : CreateFile(rel)
    \/ \E rel \in Volatile : DeleteFile(rel)
    \/ \E c \in Subs : Connect(c)
    \/ \E c \in Subs : Cancel(c)
    \/ \E c \in Subs : Break(c)
    \/ \E c \in Subs : Ping(c)
    \/ \E i \in 1..Len(watchRoots) :
          \E name \in WatchNames(watchRoots[i][1], watchRoots[i][2]) \cup {NoName} : WatchEvent(i, name)
    \/ \E u \in Unreadables : RescanStart(u)
    \/ \E r \in scans : RescanFinish(r)

Spec == Init /\ [][Next]_vars

\* the file routes against the allowed set as the watchers flag it stale and
\* the rescans change it, with no subscriber connected
NextFiles ==
    \/ \E rel \in Volatile : CreateFile(rel)
    \/ \E rel \in Volatile : DeleteFile(rel)
    \/ \E i \in 1..Len(watchRoots) :
          \E name \in WatchNames(watchRoots[i][1], watchRoots[i][2]) \cup {NoName} : WatchEvent(i, name)
    \/ \E u \in Unreadables : RescanStart(u)
    \/ \E r \in scans : RescanFinish(r)
    \/ \E req \in ReqPaths : FileRequest("GET", req, "")
    \/ \E req \in ReqPaths, body \in ReqBodies : FileRequest("PUT", req, body)

SpecFiles == Init /\ [][NextFiles]_vars

(***************************************************************************)
(* The client: App in app.tsx, one browser tab against a server that       *)
(* answers its requests for the files of ClientPaths.  The effects that    *)
(* copy hasChanges and selectedPath into their refs, and the effect that   *)
(* recomputes hasChanges, are taken to have run before the next event.     *)
(***************************************************************************)
ClientIdleRest ==
    /\ cwd = CwdPlain
    /\ inputs = <<TokCwd>>
    /\ recursive = TRUE
    /\ includeHidden = FALSE
    /\ disk = MkDisk(cwd, AllRels)
    /\ unreadable = {}
    /\ strict = "undefined"
    /\ git = NoGit
    /\ outcome = NoOutcome
    /\ ServerNotStarted

\* the page after mount, with the listing shown and no file opened
InitClient ==
    /\ ClientIdleRest
    /\ ClientNotStarted
    /\ LibNotStarted

restVars == <<envVars, discoveryVars, serverVars, libVars>>

\* useEffect(() => setHasChanges(editedContent !== content))
hasChangesEffect == hasChanges' = (editedContent' # content')

\* fetch(`/api/file?path=...`) from one of the three places that read a file
startFetch(kind, p) == fetches \cup {[kind |-> kind, path |-> p, data |-> "sent"]}

\* showSidebar: the Sidebar is mounted, and its effects run
showSidebar(fs) == Len(fs) > 1

\* visible[0]?.node.path ?? null
firstVisiblePath(vis) == IF vis = <<>> THEN NoPath ELSE vis[1].node.path

\* the first effect alone: a cursor on no row of the list stays where it is
cursorEffectsFirstOnly(cur, vis) ==
    IF cur = NoPath THEN firstVisiblePath(vis) ELSE cur

\* the two effects of Sidebar on [cursorPath, visible], run until neither
\* sets the cursor: a missing cursor goes to the first row if there is one,
\* a cursor on no row of the list goes to the first row or to null
cursorEffects(cur, vis) ==
    IF cur = NoPath THEN firstVisiblePath(vis)
    ELSE IF cur \notin {vis[i].node.path : i \in 1..Len(vis)} THEN firstVisiblePath(vis)
    ELSE cur

\* cursorPath after set has been stored and the page has rendered fs and vis
cursorAfter(set, fs, vis) == IF showSidebar(fs) THEN cursorEffects(set, vis) ELSE set

\* the body of openPath after the save, and the effect on [selectedPath]
selectPath(p) ==
    /\ selectedPath' = p
    /\ cursorPath' = cursorAfter(p, apiFiles, visible)
    /\ fetches' = startFetch("select", p)

\* openPath(path)
openPathWithin(p, cap) ==
    /\ p # selectedPath
    /\ IF hasChanges
       THEN /\ Cardinality(saves) < MaxSaves
            /\ saves' = saves \cup {[path |-> selectedPath, body |-> editedContent,
                                     status |-> "sent", then |-> p]}
            /\ UNCHANGED <<selectedPath, cursorPath, fetches>>
       ELSE /\ Cardinality(fetches) < cap
            /\ selectPath(p)
            /\ UNCHANGED saves
    /\ UNCHANGED <<restVars, content, editedContent, hasChanges, isEditing, reloadToast,
                   notices, fileText>>

\* openPath with at most MaxFetches reads of a file in flight
OpenPath(p) == openPathWithin(p, MaxFetches)

\* toggleEditing
ToggleEditing ==
    /\ selectedPath # NoPath
    /\ editedContent' = IF isEditing /\ hasChanges THEN content ELSE editedContent
    /\ isEditing' = ~isEditing
    /\ UNCHANGED <<restVars, cursorPath, selectedPath, content, reloadToast, fetches, saves, notices, fileText>>
    /\ hasChangesEffect

\* onChange of the editor: setEditedContent(e.target.value)
Type(t) ==
    /\ isEditing
    /\ editedContent' = t
    /\ UNCHANGED <<restVars, cursorPath, selectedPath, content, isEditing, reloadToast, fetches, saves,
                   notices, fileText>>
    /\ hasChangesEffect

\* handleSave up to the await, from Cmd+S or from the autosave timer
HandleSave ==
    /\ isEditing /\ hasChanges /\ selectedPath # NoPath
    /\ Cardinality(saves) < MaxSaves
    /\ saves' = saves \cup {[path |-> selectedPath, body |-> editedContent,
                             status |-> "sent", then |-> NoPath]}
    /\ UNCHANGED <<restVars, cursorPath, selectedPath, content, editedContent, hasChanges, isEditing,
                   reloadToast, fetches, notices, fileText>>

\* PUT /api/file on the server: the file is written, which its watcher reports,
\* or the write fails
ServePut(sv, ok) ==
    /\ sv.status = "sent"
    /\ saves' = (saves \ {sv}) \cup {[sv EXCEPT !.status = IF ok THEN "ok" ELSE "failed"]}
    /\ fileText' = IF ok THEN [fileText EXCEPT ![sv.path] = sv.body] ELSE fileText
    /\ notices' = IF ok THEN notices \cup {sv.path} ELSE notices
    /\ UNCHANGED <<restVars, cursorPath, selectedPath, content, editedContent, hasChanges, isEditing,
                   reloadToast, fetches>>

\* a handleSave that stores the saved text whatever the response was
SaveDoneIgnoresStatus(sv) ==
    /\ sv.status # "sent"
    /\ sv.status = "ok" /\ sv.then # NoPath => Cardinality(fetches) < MaxFetches
    /\ saves' = saves \ {sv}
    /\ content' = sv.body
    /\ IF sv.status = "ok" /\ sv.then # NoPath
       THEN selectPath(sv.then)
       ELSE UNCHANGED <<selectedPath, cursorPath, fetches>>
    /\ UNCHANGED <<restVars, editedContent, isEditing, reloadToast, notices, fileText>>
    /\ hasChangesEffect

\* handleSave from the response on, and the rest of openPath when it awaited
SaveDone(sv) ==
    /\ sv.status # "sent"
    /\ sv.status = "ok" /\ sv.then # NoPath => Cardinality(fetches) < MaxFetches
    /\ saves' = saves \ {sv}
    /\ content' = IF sv.status = "ok" THEN sv.body ELSE content
    /\ IF sv.status = "ok" /\ sv.then # NoPath
       THEN selectPath(sv.then)
       ELSE UNCHANGED <<selectedPath, cursorPath, fetches>>
    /\ UNCHANGED <<restVars, editedContent, isEditing, reloadToast, notices, fileText>>
    /\ hasChangesEffect

\* another program writes the file, which the server's watcher reports
\* whether or not the text differs
ExternalWrite(p, t) ==
    /\ fileText' = [fileText EXCEPT ![p] = t]
    /\ notices' = notices \cup {p}
    /\ UNCHANGED <<restVars, cursorPath, selectedPath, content, editedContent, hasChanges, isEditing,
                   reloadToast, fetches, saves>>

\* onFileChanged
FileChanged(p) ==
    /\ p \in notices
    /\ notices' = notices \ {p}
    /\ IF p # selectedPath THEN UNCHANGED <<reloadToast, fetches>>
       ELSE IF hasChanges THEN reloadToast' = TRUE /\ UNCHANGED fetches
       ELSE /\ Cardinality(fetches) < MaxFetches
            /\ fetches' = startFetch("auto", selectedPath)
            /\ UNCHANGED reloadToast
    /\ UNCHANGED <<restVars, cursorPath, selectedPath, content, editedContent, hasChanges, isEditing,
                   saves, fileText>>

\* the onClick of the toast's Reload action
ClickReload ==
    /\ reloadToast
    /\ selectedPath # NoPath
    /\ Cardinality(fetches) < MaxFetches
    /\ fetches' = startFetch("reload", selectedPath)
    /\ UNCHANGED <<restVars, cursorPath, selectedPath, content, editedContent, hasChanges, isEditing,
                   reloadToast, saves, notices, fileText>>

\* the toast is closed, or its five seconds are over
RemoveToast ==
    /\ reloadToast
    /\ reloadToast' = FALSE
    /\ UNCHANGED <<restVars, cursorPath, selectedPath, content, editedContent, hasChanges, isEditing,
                   fetches, saves, notices, fileText>>

\* GET /api/file on the server: the file is read
ServeGet(f) ==
    /\ f.data = "sent"
    /\ fetches' = (fetches \ {f}) \cup {[f EXCEPT !.data = fileText[f.path]]}
    /\ UNCHANGED <<restVars, cursorPath, selectedPath, content, editedContent, hasChanges, isEditing,
                   reloadToast, saves, notices, fileText>>

\* the .then of a fetch of the file: setContent(d.content); setEditedContent(d.content)
FetchDone(f) ==
    /\ f.data # "sent"
    /\ fetches' = fetches \ {f}
    /\ content' = f.data
    /\ editedContent' = f.data
    /\ UNCHANGED <<restVars, cursorPath, selectedPath, isEditing, reloadToast, saves, notices, fileText>>
    /\ hasChangesEffect

NextClient ==
    \/ \E p \in ClientPaths : OpenPath(p)
    \/ ToggleEditing
    \/ \E t \in UserTexts : Type(t)
    \/ HandleSave
    \/ \E sv \in saves, ok \in BOOLEAN : ServePut(sv, ok)
    \/ \E sv \in saves : SaveDone(sv)
    \/ \E p \in ExternallyWritten, t \in DiskTexts : ExternalWrite(p, t)
    \/ \E p \in ClientPaths : FileChanged(p)
    \/ ClickReload
    \/ RemoveToast
    \/ \E f \in fetches : ServeGet(f)
    \/ \E f \in fetches : FetchDone(f)

SpecClient == InitClient /\ [][NextClient]_vars

(***************************************************************************)
(* Properties of the server.                                               *)
(***************************************************************************)
Methods == {"GET", "PUT"}
Bodies == ReqBodies \cup {""}

\* the subscribers a broadcast reaches: registered, with a stream that accepts
Connected == {c \in sseClients : CanEnqueue(conn, c)}

\* every connected subscriber is sent exactly ev, and nobody anything else
SentToEachConnected(ev) ==
    \A c \in Subs :
        stream'[c] = IF c \in Connected THEN Append(stream[c], ev) ELSE stream[c]

\* the relative path the callback computes for an event
EventRelPath(i, name) == toPosixPath(relative(cwd, resolve(watchRoots[i][1], name)))

EventNames(i) == WatchNames(watchRoots[i][1], watchRoots[i][2])

HiddenSkipped(name) == ~includeHidden /\ isHiddenPath(name)

\* C1: a read or write of the file content whose path is not a key of the
\* allowed file set is answered 403 'File not allowed' and touches no file;
\* whatever file a request touches is an absolute path stored in the set.
C1_NotAllowedRejected ==
    [][\A m \in Methods, req \in ReqPaths, body \in Bodies :
          FileRequest(m, req, body) =>
              /\ (req # <<>> /\ ~Has(allowedFiles, req)) =>
                     (lastReq'.status = 403 /\ lastReq'.io = <<>> /\ disk' = disk)
              /\ lastReq'.io # <<>> =>
                     \E i \in 1..Len(allowedFiles) : allowedFiles[i][2] = lastReq'.io]_vars

\* a write to a file that exists in the working directory but is not in the
\* set has been refused
C1_Witness ==
    /\ lastReq.method = "PUT" /\ lastReq.path = RelN /\ lastReq.body = "string"
    /\ lastReq.status = 403
    /\ Abs(cwd, RelN) \in DOMAIN disk
    /\ Len(absoluteFiles) > Len(outcome.paths)

\* C2: the allowed file set only grows; every key stays, mapped to the same
\* absolute path, and only the completion of a rescan changes the set.
C2_AllowedOnlyGrows ==
    [][/\ \A i \in 1..Len(allowedFiles) :
             /\ Has(allowedFiles', allowedFiles[i][1])
             /\ Get(allowedFiles', allowedFiles[i][1]) = allowedFiles[i][2]
       /\ allowedFiles' # allowedFiles => \E r \in scans : r.ok /\ RescanFinish(r)]_vars

\* a file that a rescan added after startup has disappeared from disk and is
\* still in the set
C2_Witness ==
    /\ Has(allowedFiles, RelA)
    /\ \A i \in 1..Len(outcome.paths) : outcome.paths[i] # Abs(cwd, RelA)
    /\ Abs(cwd, RelA) \notin DOMAIN disk

\* what the watch callback does with the event in the current state
EventOutcome(i, name) ==
    watchCallback(watchRoots[i][1], name, allowedFiles, pendingRefresh, sseClients, conn, stream)

\* the streams after every connected subscriber is sent exactly ev
Sent(ev) == [c \in Subs |-> IF c \in Connected THEN Append(stream[c], ev) ELSE stream[c]]

\* C3 as stated: every watch event for a file of the allowed set sends one
\* file-changed event to each connected subscriber and leaves the flag alone.
C3_Original ==
    \A i \in 1..Len(watchRoots) : \A name \in EventNames(i) :
        Has(allowedFiles, EventRelPath(i, name)) =>
            /\ EventOutcome(i, name).stream = Sent(EvFileChanged(EventRelPath(i, name)))
            /\ EventOutcome(i, name).pendingRefresh = pendingRefresh

\* C3: every watch event for a file of the allowed set whose reported name
\* the hidden-path policy does not exclude sends exactly one file-changed
\* event with the file's relative path to each connected subscriber and
\* leaves the pending-refresh flag unchanged.
C3_FileChanged ==
    \A i \in 1..Len(watchRoots) : \A name \in EventNames(i) :
        (Has(allowedFiles, EventRelPath(i, name)) /\ ~HiddenSkipped(name)) =>
            /\ EventOutcome(i, name).stream = Sent(EvFileChanged(EventRelPath(i, name)))
            /\ EventOutcome(i, name).pendingRefresh = pendingRefresh

\* two connected subscribers have both just been sent file-changed for a.md
C3_Witness ==
    /\ Connected = Subs
    /\ \A c \in Subs : Len(stream[c]) >= 2 /\ stream[c][Len(stream[c])] = EvFileChanged(RelA)

\* the event reports a markdown file that is not in the allowed set
NewMarkdown(i, name) ==
    /\ ~Has(allowedFiles, EventRelPath(i, name))
    /\ isMarkdownPath(resolve(watchRoots[i][1], name))

\* C4 as stated: every watch event for a markdown file outside the allowed
\* set raises the flag with one fs-changed event, or leaves it raised.
C4_Original ==
    \A i \in 1..Len(watchRoots) : \A name \in EventNames(i) :
        NewMarkdown(i, name) =>
            /\ EventOutcome(i, name).pendingRefresh
            /\ EventOutcome(i, name).stream =
                   IF pendingRefresh THEN stream ELSE Sent(EvFsChanged(TRUE))

\* C4: a watch event for a markdown file outside the allowed set, whose name
\* the hidden-path policy does not exclude, sets pending-refresh and sends
\* exactly one fs-changed event when the flag was false, and sends nothing
\* and leaves the flag true when it was already set.
C4_PendingRefreshOnce ==
    \A i \in 1..Len(watchRoots) : \A name \in EventNames(i) :
        (NewMarkdown(i, name) /\ ~HiddenSkipped(name)) =>
            /\ EventOutcome(i, name).pendingRefresh
            /\ EventOutcome(i, name).stream =
                   IF pendingRefresh THEN stream ELSE Sent(EvFsChanged(TRUE))

\* the flag is set, no rescan is running, and of two connected subscribers the
\* one that was there for the first new-file event holds exactly one
\* fs-changed event
C4_Witness ==
    /\ pendingRefresh
    /\ scans = {}
    /\ Connected = Subs
    /\ \E c \in Subs : stream[c] = <<EvReady, EvFileChanged(RelA), EvFsChanged(TRUE)>>

\* C5: pending-refresh falls only when a rescan succeeds; a successful
\* rescan sends fs-changed with pendingRefresh false to each connected
\* subscriber; a failed rescan changes neither the flag nor the allowed
\* set and sends nothing.
C5_ClearedOnlyByRescan ==
    [][/\ (pendingRefresh /\ ~pendingRefresh') => \E r \in scans : r.ok /\ RescanFinish(r)
       /\ \A r \in scans : RescanFinish(r) =>
             IF r.ok THEN ~pendingRefresh' /\ SentToEachConnected(EvFsChanged(FALSE))
             ELSE UNCHANGED <<pendingRefresh, allowedFiles, absoluteFiles, singleFile, stream>>]_vars

\* a subscriber told of the stale set has been sent the clearing notification
C5_Witness ==
    /\ ~pendingRefresh
    /\ \E c \in Connected : stream[c] = <<EvReady, EvFsChanged(TRUE), EvFsChanged(FALSE)>>

\* a rescan has failed while the flag was set
C5_FailedWitness ==
    /\ pendingRefresh
    /\ \E r \in scans : ~r.ok

(***************************************************************************)
(* Properties of the client.                                               *)
(***************************************************************************)
\* C6 as stated, for the reloads that follow a file-changed event: no
\* response replaces an edited buffer that holds unsaved changes unless it
\* answers the Reload the user chose, and a file-changed event starts an
\* automatic reload only when there are no unsaved changes.
C6_Original ==
    [][/\ \A f \in fetches :
             (FetchDone(f) /\ f.kind # "select" /\ hasChanges /\ editedContent' # editedContent)
                 => f.kind = "reload"
       /\ \A p \in ClientPaths :
             (FileChanged(p) /\ hasChanges) => fetches' = fetches]_vars

\* the automatic reload is answered while the buffer holds what the user typed
\* since the file-changed event
C6_Witness ==
    /\ hasChanges
    /\ editedContent \in UserTexts
    /\ \E f \in fetches : f.kind = "auto" /\ f.path = selectedPath /\ f.data \in DiskTexts

(***************************************************************************)
(* filterGitIgnored on its own: every candidate list of up to MaxCands     *)
(* paths against every answer of git, with the repository root at the      *)
(* working directory or below it (so that some candidates lie outside).    *)
(***************************************************************************)
CandA == Abs(CwdPlain, RelA)
CandB == Abs(CwdPlain, RelB)
CandSC == Abs(CwdPlain, RelSC)
CandBS == Abs(CwdPlain, RelBS)
CandPaths == {CandA, CandB, CandSC, CandBS}

RelC == <<"c", ".", "m", "d">>

CandidateLists ==
    {q \in UNION {[1..n -> CandPaths] : n \in 0..MaxCands} :
        \A i, j \in 1..Len(q) : i # j => q[i] # q[j]}

RepoRoots == {<<>>, CwdPlain, Abs(CwdPlain, RelS)}
IgnoreRules == {{}, {RelA}, {RelSC}, {RelC}, {RelA, RelSC}}

GitAnswers ==
    [which : BOOLEAN, toplevelExit : {0, 128}, repoRoot : RepoRoots,
     checkFails : BOOLEAN, ignored : IgnoreRules]

InitGit ==
    /\ cwd = CwdPlain
    /\ inputs = <<TokCwd>>
    /\ recursive = TRUE
    /\ includeHidden = FALSE
    /\ disk = MkDisk(cwd, AllRels)
    /\ unreadable = {}
    /\ strict = "undefined"
    /\ git \in GitAnswers
    /\ outcome = NoOutcome
    /\ ServerNotStarted
    /\ ClientNotStarted
    /\ candidates \in CandidateLists
    /\ filtered = NotFiltered
    /\ ListingNotStarted
    /\ TreeNotStarted
    /\ MoreNotStarted

\* const filtered = await filterGitIgnored(Array.from(discovered), options.cwd)
FilterGitIgnored ==
    /\ ~filtered.done
    /\ filtered' = [done |-> TRUE, paths |-> filterGitIgnored(candidates, git)]
    /\ UNCHANGED <<envVars, discoveryVars, serverVars, clientVars, candidates, listingVars, treeVars,
                   moreVars>>

NextGit == FilterGitIgnored

SpecGit == InitGit /\ [][NextGit]_vars

\* the filter cannot consult git, or git's check exits with a fatal status
GitUnavailable ==
    \/ ~git.which
    \/ git.toplevelExit # 0
    \/ git.repoRoot = <<>>
    \/ git.checkFails

\* p lies below the repository root
InsideRepo(p) == StartsWith(p, git.repoRoot \o Slash)

\* git reports the name under which p was submitted to it
ReportedIgnored(p) ==
    toPosixPath(SubSeq(p, Len(git.repoRoot) + 2, Len(p))) \in git.ignored

\* C11: the ignore filter is fail-open: without the tool, without a repository
\* root or with a failing check it returns the candidates unchanged; otherwise
\* it returns, in the candidates' order, the candidates except those inside the
\* repository that git reported ignored (candidates outside are always kept).
C11_FailOpenFilter ==
    filtered.done =>
        IF GitUnavailable THEN filtered.paths = candidates
        ELSE filtered.paths =
                 SelectSeq(candidates, LAMBDA p : ~(InsideRepo(p) /\ ReportedIgnored(p)))

\* git answered, one candidate inside the repository was dropped and one
\* outside of it was kept
C11_Witness ==
    /\ filtered.done
    /\ ~GitUnavailable
    /\ \E i \in 1..Len(candidates) :
           InsideRepo(candidates[i]) /\ ~Includes(filtered.paths, candidates[i])
    /\ \E i \in 1..Len(candidates) :
           ~InsideRepo(candidates[i]) /\ Includes(filtered.paths, candidates[i])

\* the check failed with candidates inside the repository that its rules ignore
C11_FailedCheckWitness ==
    /\ filtered.done
    /\ git.which /\ git.toplevelExit = 0 /\ git.repoRoot # <<>> /\ git.checkFails
    /\ \E i \in 1..Len(candidates) : InsideRepo(candidates[i]) /\ ReportedIgnored(candidates[i])
    /\ filtered.paths = candidates

(***************************************************************************)
(* Properties of the rescan.                                               *)
(***************************************************************************)
\* the discovery pass returned and every file it found is already known
NothingNew(r) == r.ok /\ \A i \in 1..Len(r.paths) : Includes(absoluteFiles, r.paths[i])

\* the server state after a rescan whose discovery pass returned r
AfterRescan(st, r) ==
    LET done == rescan(st.files, st.pendingRefresh, r)
    IN  [files |-> done.files,
         allowed |-> IF done.ok THEN buildAllowedFiles(cwd, done.files) ELSE st.allowed,
         single |-> IF done.ok THEN Len(buildAllowedFiles(cwd, done.files)) = 1 ELSE st.single,
         pendingRefresh |-> done.pendingRefresh]

ServerNow ==
    [files |-> absoluteFiles, allowed |-> allowedFiles, single |-> singleFile,
     pendingRefresh |-> pendingRefresh]

\* what a discovery pass returns on the filesystem as it is now
PassNow(u) ==
    LET r == discoverMarkdownFiles(inputs, RescanOptions, MkFs(cwd, disk, u), git)
    IN  [ok |-> r.ok, paths |-> r.paths]

\* C12: a rescan whose discovery pass finds no file that is not already in the
\* allowed set leaves the allowed set (and the single-file flag) unchanged and
\* pending-refresh false; and a second rescan right after a first one, on the
\* same filesystem, changes nothing.
C12_RescanIdempotent ==
    /\ [][\A r \in scans : (RescanFinish(r) /\ NothingNew(r)) =>
              /\ allowedFiles' = allowedFiles
              /\ absoluteFiles' = absoluteFiles
              /\ singleFile' = singleFile
              /\ ~pendingRefresh']_vars
    /\ [](\A u \in Unreadables :
              LET once == AfterRescan(ServerNow, PassNow(u))
              IN  /\ AfterRescan(once, PassNow(u)) = once
                  /\ PassNow(u).ok => ~once.pendingRefresh)

\* a subscriber saw the flag set and then cleared by a rescan, and the allowed
\* set is still the one of the startup
C12_Witness ==
    /\ ~pendingRefresh
    /\ absoluteFiles = outcome.paths
    /\ PassNow({}).ok /\ NothingNew(PassNow({}))
    /\ \E c \in Connected : stream[c] = <<EvReady, EvFsChanged(TRUE), EvFsChanged(FALSE)>>

(***************************************************************************)
(* GET /api/files: one listing request followed through its suspension     *)
(* points (await rescan(), then await lstat / await stat for each entry),  *)
(* while the watchers and other refresh requests run.  No subscriber is    *)
(* connected.  The server watches the working directory, which holds one   *)
(* or two markdown files at startup.                                       *)
(***************************************************************************)
ListingDisks == {{RelS, RelSC, RelN}, {RelS, RelSC, RelB, RelN}}
ListingVolatile == {RelA, RelSC}
Mtimes == {1, 2}

InitListing ==
    /\ cwd = CwdPlain
    /\ inputs = <<TokCwd>>
    /\ recursive = TRUE
    /\ includeHidden = FALSE
    /\ \E rels \in ListingDisks : disk = MkDisk(cwd, rels)
    /\ unreadable = {}
    /\ strict = "undefined"
    /\ git = NoGit
    /\ LET r == discoverMarkdownFiles(inputs, Options, MkFs(cwd, disk, unreadable), git)
       IN  /\ r.ok /\ r.paths # <<>>
           /\ outcome = [done |-> TRUE, ok |-> r.ok, err |-> r.err, paths |-> r.paths]
    /\ absoluteFiles = AddAll(<<>>, outcome.paths)
    /\ allowedFiles = buildAllowedFiles(cwd, absoluteFiles)
    /\ singleFile = (Len(allowedFiles) = 1)
    /\ pendingRefresh = FALSE
    /\ sseClients = {}
    /\ conn = [c \in Subs |-> "new"]
    /\ stream = [c \in Subs |-> <<>>]
    /\ watchRoots = setupWatchers(MkFs(cwd, disk, unreadable), inputs, cwd, recursive)
    /\ scans = {}
    /\ lastReq = NoRequest
    /\ ClientNotStarted
    /\ LibNotStarted

\* for (const [relPath, absPath] of allowedFiles.entries()): the iterator is
\* taken on the Map that allowedFiles names at this moment
beginLoop(allowed) == [pc |-> "loop", todo |-> allowed, of |-> allowed, files |-> <<>>]

\* GET /api/files without ?refresh, up to the first await of the loop
ListBegin ==
    /\ listing.pc = "idle"
    /\ listing' = beginLoop(allowedFiles)
    /\ UNCHANGED <<envVars, discoveryVars, serverVars, clientVars, gitVars, treeVars, moreVars, response>>

\* GET /api/files?refresh=1 from the return of the discovery pass up to the
\* first await of the loop: the rest of rescan, the broadcast, the iterator
ListRefreshed(r) ==
    /\ listing.pc = "idle"
    /\ scans' = scans \ {r}
    /\ LET st == AfterRescan(ServerNow, r)
           b == IF r.ok THEN broadcast(sseClients, conn, stream, EvFsChanged(FALSE))
                ELSE [clients |-> sseClients, stream |-> stream]
       IN  /\ absoluteFiles' = st.files
           /\ allowedFiles' = st.allowed
           /\ singleFile' = st.single
           /\ pendingRefresh' = st.pendingRefresh
           /\ sseClients' = b.clients
           /\ stream' = b.stream
           /\ listing' = beginLoop(st.allowed)
    /\ UNCHANGED <<envVars, discoveryVars, clientVars, gitVars, treeVars, moreVars, conn, watchRoots, lastReq,
                   response>>

\* lstat(absPath) and stat(absPath) of one entry: stat follows a symbolic
\* link, whose target may be missing
statFails(abs, dangling) ==
    abs \notin DOMAIN disk \/ (disk[abs] = "symlink" /\ dangling)

\* a failed stat reported with a modification time of 0 next to the error
apiFileErrorWithMtime(entry, mt, dangling) ==
    IF statFails(entry[2], dangling)
    THEN [path |-> entry[1], name |-> basename(entry[2]), mtimeMs |-> 0,
          error |-> "Failed to stat file"]
    ELSE [path |-> entry[1], name |-> basename(entry[2]), mtimeMs |-> mt,
          isSymlink |-> (disk[entry[2]] = "symlink")]

\* the ApiFile pushed for the entry [relPath, absPath]
apiFile(entry, mt, dangling) ==
    IF statFails(entry[2], dangling)
    THEN [path |-> entry[1], name |-> basename(entry[2]), error |-> "Failed to stat file"]
    ELSE [path |-> entry[1], name |-> basename(entry[2]), mtimeMs |-> mt,
          isSymlink |-> (disk[entry[2]] = "symlink")]

\* Response.json({cwd, singleFile, pendingRefresh, files}); `of` is the Map
\* the loop went through
listingResponse(files, of) ==
    [done |-> TRUE, cwd |-> cwd, singleFile |-> singleFile, pendingRefresh |-> pendingRefresh,
     files |-> files, of |-> of]

\* one iteration of the loop, from the return of its awaits to the next
\* await, or to the response after the last entry
ListStat(mt, dangling) ==
    /\ listing.pc = "loop"
    /\ LET files == Append(listing.files, apiFile(Head(listing.todo), mt, dangling))
       IN  IF Len(listing.todo) = 1
           THEN /\ response' = listingResponse(files, listing.of)
                /\ listing' = NoListing
           ELSE /\ listing' = [listing EXCEPT !.todo = Tail(listing.todo), !.files = files]
                /\ UNCHANGED response
    /\ UNCHANGED <<envVars, discoveryVars, serverVars, clientVars, gitVars, treeVars, moreVars>>

NextListing ==
    \/ \E rel \in ListingVolatile : CreateFile(rel)
    \/ \E rel \in ListingVolatile : DeleteFile(rel)
    \/ \E i \in 1..Len(watchRoots) :
          \E name \in WatchNames(watchRoots[i][1], watchRoots[i][2]) \cup {NoName} : WatchEvent(i, name)
    \/ \E u \in Unreadables : RescanStart(u)
    \/ \E r \in scans : RescanFinish(r)
    \/ ListBegin
    \/ \E r \in scans : ListRefreshed(r)
    \/ \E mt \in Mtimes, dangling \in BOOLEAN : ListStat(mt, dangling)

SpecListing == InitListing /\ [][NextListing]_vars

(***************************************************************************)
(* Properties of the listing.                                              *)
(***************************************************************************)
\* at every moment the flag is the size test of rescan and of startServer
SingleFileTracksSize == singleFile = (Len(allowedFiles) = 1)

\* C13 as stated, in what it implies for one response: the server state of
\* any single moment has singleFile true exactly when the allowed set holds
\* one file (SingleFileTracksSize), so a response whose files, singleFile and
\* pendingRefresh are those of one moment lists one file exactly when its
\* singleFile is true.
C13_Original ==
    response.done => (response.singleFile <=> Len(response.files) = 1)

\* a response that lists the only file of the first moment with the flag of a
\* later one
C13_Witness ==
    /\ response.done
    /\ Len(response.files) = 1
    /\ ~response.singleFile

\* the files array after a step of the loop
FilesAfter == IF listing'.pc = "idle" THEN response'.files ELSE listing'.files

HasError(f) == "error" \in DOMAIN f /\ "mtimeMs" \notin DOMAIN f
HasMtime(f) == "mtimeMs" \in DOMAIN f /\ "error" \notin DOMAIN f

\* C15: a listing response holds exactly one entry per relative path of the
\* allowed set its handler went through, in the set's order; an entry whose
\* stat fails while the listing is assembled carries an error string and no
\* modification time, every other entry a modification time and no error, and
\* pushing an entry leaves the entries pushed before it as they were.
C15_ListingEntries ==
    /\ [](response.done =>
              /\ Len(response.files) = Len(response.of)
              /\ \A i \in 1..Len(response.of) :
                     /\ response.files[i].path = response.of[i][1]
                     /\ response.files[i].name = basename(response.of[i][2])
                     /\ HasError(response.files[i]) \/ HasMtime(response.files[i]))
    /\ [][\A mt \in Mtimes, dangling \in BOOLEAN : ListStat(mt, dangling) =>
              LET entry == Head(listing.todo)
                  n == Len(FilesAfter)
              IN  /\ n = Len(listing.files) + 1
                  /\ SubSeq(FilesAfter, 1, n - 1) = listing.files
                  /\ FilesAfter[n].path = entry[1]
                  /\ IF statFails(entry[2], dangling) THEN HasError(FilesAfter[n])
                     ELSE HasMtime(FilesAfter[n]) /\ FilesAfter[n].mtimeMs = mt]_vars

\* a response with an entry in error before an entry that was read
C15_Witness ==
    /\ response.done
    /\ \E i, j \in 1..Len(response.files) :
           i < j /\ HasError(response.files[i]) /\ HasMtime(response.files[j])

(***************************************************************************)
(* Properties of the notification stream.                                  *)
(***************************************************************************)
\* the stream of a subscriber that stays connected gains at most one event
\* in a step, and loses none
AtMostOneMore(c) ==
    \/ stream'[c] = stream[c]
    \/ \E ev \in {EvFsChanged(TRUE), EvFsChanged(FALSE)} \cup
                  {EvFileChanged(rel) : rel \in Keys(allowedFiles)} :
           stream'[c] = Append(stream[c], ev)

\* C14 as stated: a subscriber that connects is sent the readiness signal and
\* then the current pending-refresh state as an initial fs-changed event, and
\* nothing of what was broadcast before; while it stays connected every step
\* of the server adds at most one event to what it was sent.
C14_Original ==
    [][\A c \in Subs :
          /\ Connect(c) => stream'[c] = <<EvReady, EvFsChanged(pendingRefresh)>>
          /\ (conn[c] = "open" /\ conn'[c] = "open") => AtMostOneMore(c)]_vars

\* what holds of the stream: the initial fs-changed event is sent only when
\* pending-refresh is set
C14_InitialEvents ==
    [][\A c \in Subs :
          /\ Connect(c) =>
                stream'[c] = IF pendingRefresh THEN <<EvReady, EvFsChanged(TRUE)>> ELSE <<EvReady>>
          /\ (conn[c] = "open" /\ conn'[c] = "open") => AtMostOneMore(c)]_vars

\* a subscriber connected while pending-refresh was not set, after the flag
\* had been set and cleared: it was sent the readiness signal alone
C14_Witness ==
    /\ ~pendingRefresh
    /\ \E c, d \in Connected :
           /\ stream[c] = <<EvReady>>
           /\ stream[d] = <<EvReady, EvFsChanged(TRUE), EvFsChanged(FALSE)>>

(***************************************************************************)
(* lib/file-tree.ts                                                        *)
(***************************************************************************)
Whitespace == {" "}

RECURSIVE trimStart(_)
trimStart(s) == IF s # <<>> /\ Head(s) \in Whitespace THEN trimStart(Tail(s)) ELSE s

RECURSIVE trimEnd(_)
trimEnd(s) ==
    IF s # <<>> /\ s[Len(s)] \in Whitespace THEN trimEnd(SubSeq(s, 1, Len(s) - 1)) ELSE s

\* s.trim()
trim(s) == trimEnd(trimStart(s))

\* s.includes(sub) on strings
StringIncludes(s, sub) ==
    \E i \in 0..(Len(s) - Len(sub)) : SubSeq(s, i + 1, i + Len(sub)) = sub

\* the collation's primary order of the characters of the names: white
\* space, punctuation, then the letters whatever their case
CollationOrder == <<" ", "_", "-", ".", "/", "\\">> \o LowerCase

primary(c) ==
    LET l == IF c \in UpperSet THEN ToLower[c] ELSE c
    IN  CHOOSE i \in 1..Len(CollationOrder) : CollationOrder[i] = l

RECURSIVE compareStrings(_, _)
\* a.localeCompare(b, undefined, {sensitivity: "base"})
compareStrings(a, b) ==
    IF a = <<>> /\ b = <<>> THEN 0
    ELSE IF a = <<>> THEN -1
    ELSE IF b = <<>> THEN 1
    ELSE IF primary(Head(a)) < primary(Head(b)) THEN -1
    ELSE IF primary(Head(a)) > primary(Head(b)) THEN 1
    ELSE compareStrings(Tail(a), Tail(b))

SortOrders == {"name-asc", "name-desc", "modified-desc", "modified-asc"}

\* cmp(a, b) of sortChildren for the sort order so
compareNodes(so, a, b) ==
    IF so = "name-asc" THEN compareStrings(a.name, b.name)
    ELSE IF so = "name-desc" THEN 0 - compareStrings(a.name, b.name)
    ELSE IF so = "modified-asc" THEN a.mtimeMs - b.mtimeMs
    ELSE b.mtimeMs - a.mtimeMs

RECURSIVE insertSorted(_, _, _)
insertSorted(sorted, x, so) ==
    IF sorted = <<>> THEN <<x>>
    ELSE IF compareNodes(so, Head(sorted), x) > 0 THEN <<x>> \o sorted
    ELSE <<Head(sorted)>> \o insertSorted(Tail(sorted), x, so)

RECURSIVE sortFrom(_, _, _)
sortFrom(nodes, acc, so) ==
    IF nodes = <<>> THEN acc
    ELSE sortFrom(Tail(nodes), insertSorted(acc, Head(nodes), so), so)

\* Array.prototype.sort(cmp): a stable sort
sort(nodes, so) == sortFrom(nodes, <<>>, so)

\* one sort of the siblings, folders and files together
sortChildrenTogether(nodes, so) == sort(nodes, so)

sortChildren(nodes, so) ==
    sort(SelectSeq(nodes, LAMBDA n : n.kind = "folder"), so)
        \o sort(SelectSeq(nodes, LAMBDA n : n.kind = "file"), so)

normalizePath(p) == toPosixPath(p)

pathSegments(p) == FilterBoolean(Split(normalizePath(p)))

\* typeof file.mtimeMs === "number" ? file.mtimeMs : 0
computeMtimeMs(file) == IF "mtimeMs" \in DOMAIN file THEN file.mtimeMs ELSE 0

NoError == "undefined"

\* the file node pushed at lines 123-130
fileNodeOf(file, name) ==
    [kind |-> "file", path |-> normalizePath(file.path), name |-> name,
     mtimeMs |-> computeMtimeMs(file),
     isSymlink |-> ("isSymlink" \in DOMAIN file /\ file.isSymlink),
     error |-> IF "error" \in DOMAIN file THEN file.error ELSE NoError]

RECURSIVE insertFile(_, _, _, _)
\* the children of the folder at currentPath once the file whose remaining
\* segments are segs hangs below it: the inner loop over the segments, with
\* folderIndex.get(folderPath) as the search of the folder of that path
insertFile(children, segs, currentPath, fileNode) ==
    IF Len(segs) = 1 THEN Append(children, fileNode)
    ELSE LET seg == Head(segs)
             folderPath == IF currentPath # <<>> THEN currentPath \o Slash \o seg ELSE seg
             isFolder(n) == n.kind = "folder" /\ n.path = folderPath
         IN  IF \E i \in 1..Len(children) : isFolder(children[i])
             THEN [i \in 1..Len(children) |->
                      IF isFolder(children[i])
                      THEN [children[i] EXCEPT
                               !.children = insertFile(@, Tail(segs), folderPath, fileNode)]
                      ELSE children[i]]
             ELSE Append(children,
                      [kind |-> "folder", path |-> folderPath, name |-> seg, mtimeMs |-> 0,
                       children |-> insertFile(<<>>, Tail(segs), folderPath, fileNode)])

RECURSIVE addFiles(_, _)
\* for (const file of files)
addFiles(children, fs) ==
    IF fs = <<>> THEN children
    ELSE LET segments == pathSegments(Head(fs).path)
         IN  IF segments = <<>> THEN addFiles(children, Tail(fs))
             ELSE addFiles(insertFile(children, segments, <<>>,
                                      fileNodeOf(Head(fs), segments[Len(segments)])),
                           Tail(fs))

RECURSIVE maxMtimeFrom(_, _, _)
\* let max = 0; for (...) if (child.mtimeMs > max) max = child.mtimeMs
maxMtimeFrom(kids, i, max) ==
    IF i > Len(kids) THEN max
    ELSE maxMtimeFrom(kids, i + 1, IF kids[i].mtimeMs > max THEN kids[i].mtimeMs ELSE max)

RECURSIVE recomputeFolderMtime(_)
recomputeFolderMtime(node) ==
    LET kids == [i \in 1..Len(node.children) |->
                    IF node.children[i].kind = "folder"
                    THEN recomputeFolderMtime(node.children[i])
                    ELSE node.children[i]]
    IN  [node EXCEPT !.children = kids, !.mtimeMs = maxMtimeFrom(kids, 1, 0)]

RECURSIVE sortRec(_, _)
sortRec(node, so) ==
    LET sorted == sortChildren(node.children, so)
    IN  [node EXCEPT !.children =
            [i \in 1..Len(sorted) |->
                IF sorted[i].kind = "folder" THEN sortRec(sorted[i], so) ELSE sorted[i]]]

RootFolder == [kind |-> "folder", path |-> <<>>, name |-> <<>>, mtimeMs |-> 0, children |-> <<>>]

buildFileTree(fs, so) ==
    LET root == [RootFolder EXCEPT !.children = addFiles(<<>>, fs)]
    IN  sortRec(recomputeFolderMtime(root), so).children

Null == [kind |-> "null"]

\* matchesFile(path) for the query q
matchesFile(path, q) == StringIncludes(toLowerCase(normalizePath(path)), q)

RECURSIVE filterRec(_, _)
\* filterRec(node): the node it returns and the paths it adds to autoExpand
filterRec(node, q) ==
    IF node.kind = "file"
    THEN [node |-> IF matchesFile(node.path, q) THEN node ELSE Null, expand |-> {}]
    ELSE LET rs == [i \in 1..Len(node.children) |-> filterRec(node.children[i], q)]
             kept == SelectSeq(rs, LAMBDA r : r.node.kind # "null")
             children == [i \in 1..Len(kept) |-> kept[i].node]
             below == UNION {rs[i].expand : i \in 1..Len(rs)}
         IN  IF children = <<>> THEN [node |-> Null, expand |-> below]
             ELSE [node |-> [node EXCEPT !.children = children],
                   expand |-> below \cup {node.path}]

\* the query compared as typed, without toLowerCase
filterTreeCaseSensitive(nodes, text) ==
    LET q == trim(text)
        rs == [i \in 1..Len(nodes) |-> filterRec(nodes[i], q)]
        kept == SelectSeq(rs, LAMBDA r : r.node.kind # "null")
    IN  IF q = <<>> THEN [nodes |-> nodes, autoExpand |-> {}]
        ELSE [nodes |-> [i \in 1..Len(kept) |-> kept[i].node],
              autoExpand |-> UNION {rs[i].expand : i \in 1..Len(rs)}]

filterTree(nodes, text) ==
    LET q == toLowerCase(trim(text))
        rs == [i \in 1..Len(nodes) |-> filterRec(nodes[i], q)]
        kept == SelectSeq(rs, LAMBDA r : r.node.kind # "null")
    IN  IF q = <<>> THEN [nodes |-> nodes, autoExpand |-> {}]
        ELSE [nodes |-> [i \in 1..Len(kept) |-> kept[i].node],
              autoExpand |-> UNION {rs[i].expand : i \in 1..Len(rs)}]

RECURSIVE walk(_, _, _, _)
RECURSIVE walkAll(_, _, _, _)
\* walk(node, depth): what it pushes on out
walk(node, depth, expanded, auto) ==
    <<[node |-> node, depth |-> depth]>> \o
        (IF node.kind = "folder" /\ (node.path \in expanded \/ node.path \in auto)
         THEN walkAll(node.children, depth + 1, expanded, auto)
         ELSE <<>>)

walkAll(nodes, depth, expanded, auto) ==
    IF nodes = <<>> THEN <<>>
    ELSE walk(Head(nodes), depth, expanded, auto) \o walkAll(Tail(nodes), depth, expanded, auto)

\* the auto-expand set is not consulted
flattenVisibleNodesManual(nodes, expanded, auto) == walkAll(nodes, 0, expanded, {})

\* a folder is open only when it is in both sets
flattenVisibleNodesBoth(nodes, expanded, auto) == walkAll(nodes, 0, expanded \cap auto, {})

flattenVisibleNodes(nodes, expanded, auto) == walkAll(nodes, 0, expanded, auto)

(***************************************************************************)
(* The sidebar: Sidebar renders the three memoized results from the files  *)
(* of the listing, the sort order, the filter text and the expanded        *)
(* folders.  The listing holds up to MaxFiles files of six paths, up to    *)
(* two folders deep.                                                       *)
(***************************************************************************)
RelSTD == <<"s", "/", "t", "/", "d", ".", "m", "d">>
RelTE == <<"T", "/", "e", ".", "m", "d">>
RelSpace == <<"s", "/", "c", " ", "d", ".", "m", "d">>
TreePaths == {RelA, RelB, RelSC, RelSpace, RelSTD, RelTE}

\* st.mtimeMs: a time before the epoch, and two after it
TreeMtimes == {-1, 1, 2}

\* the entries /api/files can return for path p
ApiFilesOf(p) ==
    {[path |-> p, name |-> basename(p), error |-> "Failed to stat file"]} \cup
    {[path |-> p, name |-> basename(p), mtimeMs |-> m, isSymlink |-> (p = RelB)] : m \in TreeMtimes}

DistinctPaths(fs) == \A i, j \in 1..Len(fs) : i # j => fs[i].path # fs[j].path

ApiFileLists ==
    {fs \in UNION {[1..n -> UNION {ApiFilesOf(p) : p \in TreePaths}] : n \in 1..MaxFiles} :
        DistinctPaths(fs)}

\* a listing whose files were all modified at the same time
SidebarFileLists ==
    {fs \in UNION {[1..n -> {[path |-> p, name |-> basename(p), mtimeMs |-> 1,
                             isSymlink |-> (p = RelB)] : p \in TreePaths}] : n \in 1..MaxFiles} :
        DistinctPaths(fs)}

FilterTexts == {<<>>, <<" ">>, <<"T", "/">>, <<" ", "C">>, <<"x">>}

\* the three useMemo results for the props as they are
Rendered ==
    /\ tree = buildFileTree(apiFiles, sortOrder)
    /\ filteredTree = filterTree(tree, filterText).nodes
    /\ autoExpand = filterTree(tree, filterText).autoExpand
    /\ visible = flattenVisibleNodes(filteredTree, expandedFolders, autoExpand)

\* a render with new props after setCursorPath(cur), and the effects on the
\* cursor that follow it
renderWithCursor(fs, so, text, expanded, cur) ==
    LET t == buildFileTree(fs, so)
        ft == filterTree(t, text)
    IN  /\ apiFiles' = fs
        /\ sortOrder' = so
        /\ filterText' = text
        /\ expandedFolders' = expanded
        /\ tree' = t
        /\ filteredTree' = ft.nodes
        /\ autoExpand' = ft.autoExpand
        /\ visible' = flattenVisibleNodes(ft.nodes, expanded, ft.autoExpand)
        /\ cursorPath' = cursorAfter(cur, fs, visible')

\* a render with new props
render(fs, so, text, expanded) == renderWithCursor(fs, so, text, expanded, cursorPath)

\* the cursor after the first render of the listing
CursorMounted == cursorPath = cursorAfter(NoPath, apiFiles, visible)

TreeIdleRest ==
    /\ ClientIdleRest
    /\ BufferNotStarted
    /\ GitNotStarted
    /\ ListingNotStarted
    /\ MoreNotStarted

treeRest == <<envVars, discoveryVars, serverVars, bufferVars, gitVars, listingVars, moreVars>>

InitTree ==
    /\ TreeIdleRest
    /\ apiFiles \in ApiFileLists
    /\ sortOrder = "name-asc"
    /\ filterText = <<>>
    /\ expandedFolders = {}
    /\ Rendered
    /\ CursorMounted

\* the select of the sidebar: onSortOrderChange(e.target.value)
SetSortOrder(so) ==
    /\ so # sortOrder
    /\ render(apiFiles, so, filterText, expandedFolders)
    /\ UNCHANGED treeRest

NextTree == \E so \in SortOrders : SetSortOrder(so)

SpecTree == InitTree /\ [][NextTree]_vars

InitSidebar ==
    /\ TreeIdleRest
    /\ apiFiles \in SidebarFileLists
    /\ sortOrder = "name-asc"
    /\ filterText = <<>>
    /\ expandedFolders = {}
    /\ Rendered
    /\ CursorMounted

\* the filter input: onFilterTextChange(e.target.value)
SetFilterText(text) ==
    /\ text # filterText
    /\ render(apiFiles, sortOrder, text, expandedFolders)
    /\ UNCHANGED treeRest

\* toggleFolder(path) on a folder row of the list
ToggleFolder(path) ==
    /\ \E i \in 1..Len(visible) : visible[i].node.kind = "folder" /\ visible[i].node.path = path
    /\ render(apiFiles, sortOrder, filterText,
              IF path \in expandedFolders THEN expandedFolders \ {path}
              ELSE expandedFolders \cup {path})
    /\ UNCHANGED treeRest

FolderPaths == {RelS, <<"s", "/", "t">>, <<"T">>}

NextSidebar ==
    \/ \E text \in FilterTexts : SetFilterText(text)
    \/ \E path \in FolderPaths : ToggleFolder(path)

SpecSidebar == InitSidebar /\ [][NextSidebar]_vars

(***************************************************************************)
(* Properties of the tree.                                                 *)
(***************************************************************************)
RECURSIVE NodesOf(_)
\* every node of a list of trees
NodesOf(nodes) ==
    UNION {{nodes[i]} \cup (IF nodes[i].kind = "folder" THEN NodesOf(nodes[i].children) ELSE {})
           : i \in 1..Len(nodes)}

FoldersOf(nodes) == {n \in NodesOf(nodes) : n.kind = "folder"}
FilesOf(nodes) == {n \in NodesOf(nodes) : n.kind = "file"}

\* the modification times of the listed files below the folder of path p, a
\* file without one counting as 0
MtimesBelow(p) ==
    {IF "mtimeMs" \in DOMAIN apiFiles[i] THEN apiFiles[i].mtimeMs ELSE 0 :
        i \in {j \in 1..Len(apiFiles) : StartsWith(apiFiles[j].path, p \o Slash)}}

MaxOf(S) == CHOOSE m \in S : \A x \in S : x <= m

\* C16 as stated: every folder node of the tree has the maximum modification
\* time of the files below it, and 0 when there is none.
C16_Original ==
    \A n \in FoldersOf(tree) :
        n.mtimeMs = IF MtimesBelow(n.path) = {} THEN 0 ELSE MaxOf(MtimesBelow(n.path))

\* what holds: the maximum is taken over 0 and the files' times
C16_FolderMtime ==
    \A n \in FoldersOf(tree) : n.mtimeMs = MaxOf(MtimesBelow(n.path) \cup {0})

\* a folder two levels above a file modified before the epoch, its only file
C16_Witness ==
    \E n \in FoldersOf(tree) :
        /\ n.path = RelS
        /\ MtimesBelow(n.path) = {-1}
        /\ \E i \in 1..Len(apiFiles) : apiFiles[i].path = RelSTD
        /\ n.mtimeMs = 0

\* every list of siblings: the top level and the children of each folder
LevelsOf(nodes) == {nodes} \cup {n.children : n \in FoldersOf(nodes)}

\* a comes no later than b in the order so
InOrder(so, a, b) ==
    IF so = "name-asc" THEN compareStrings(a.name, b.name) <= 0
    ELSE IF so = "name-desc" THEN compareStrings(a.name, b.name) >= 0
    ELSE IF so = "modified-asc" THEN a.mtimeMs <= b.mtimeMs
    ELSE a.mtimeMs >= b.mtimeMs

\* C17: at every level of the tree and for each of the four sort orders, the
\* folders come before the files, and the folders among themselves and the
\* files among themselves are in the chosen order (by name or by modification
\* time, ascending or descending).
C17_FoldersFirstThenOrder ==
    /\ sortOrder \in SortOrders
    /\ \A level \in LevelsOf(tree) :
           \A i, j \in 1..Len(level) :
               i < j =>
                   /\ ~(level[i].kind = "file" /\ level[j].kind = "folder")
                   /\ level[i].kind = level[j].kind => InOrder(sortOrder, level[i], level[j])

\* the listing names a file first and two folders after it, the younger one
\* last; sorted by newest first the top level is that folder, the other, the file
C17_Witness ==
    /\ sortOrder = "modified-desc"
    /\ Len(apiFiles) = 3
    /\ apiFiles[1].path = RelA
    /\ Len(tree) = 3
    /\ tree[1].kind = "folder" /\ tree[2].kind = "folder" /\ tree[3].kind = "file"
    /\ apiFiles[3].path = RelTE /\ tree[1].path = <<"T">>
    /\ tree[1].mtimeMs > tree[2].mtimeMs
    /\ tree[3].mtimeMs > tree[1].mtimeMs

(***************************************************************************)
(* Properties of the filter and of the visible list.                       *)
(***************************************************************************)
PathsOf(ns) == {n.path : n \in ns}

\* the files of the tree whose path contains q, case ignored
MatchingFiles(q) ==
    {n \in FilesOf(tree) : StringIncludes(toLowerCase(n.path), toLowerCase(q))}

\* the folders of the tree with a matching file somewhere below them
MatchingFolders(q) ==
    {n \in FoldersOf(tree) :
        \E f \in MatchingFiles(q) : StartsWith(f.path, n.path \o Slash)}

\* the filtered tree holds the files matching q as they were, the folders
\* above them and nothing else, each folder with the matching files below it,
\* and the auto-expand set is the paths of those folders
FilteredBy(q) ==
    /\ FilesOf(filteredTree) = MatchingFiles(q)
    /\ PathsOf(FoldersOf(filteredTree)) = PathsOf(MatchingFolders(q))
    /\ \A n \in FoldersOf(filteredTree) :
           FilesOf(n.children) = {f \in MatchingFiles(q) : StartsWith(f.path, n.path \o Slash)}
    /\ autoExpand = PathsOf(FoldersOf(filteredTree))
    /\ MatchingFiles(q) = {} => filteredTree = <<>>

\* C18 as stated: an empty or whitespace-only text leaves the tree as it is
\* with nothing auto-expanded; any other text keeps the files whose path
\* contains the text (case ignored) and the folders above them, auto-expands
\* exactly those folders, and gives an empty tree when no file matches.
C18_Original ==
    IF trim(filterText) = <<>> THEN filteredTree = tree /\ autoExpand = {}
    ELSE FilteredBy(filterText)

\* C18 with the text trimmed before it is searched for: the same, where a file
\* matches when its path contains the text without the white space around it.
C18_FilterTrimmedText ==
    IF trim(filterText) = <<>> THEN filteredTree = tree /\ autoExpand = {}
    ELSE FilteredBy(trim(filterText))

\* a text with a leading space and a capital keeps one file of a folder and
\* drops another file of the tree
C18_Witness ==
    /\ filterText = <<" ", "C">>
    /\ PathsOf(FilesOf(filteredTree)) = {RelSC}
    /\ autoExpand = {RelS}
    /\ Cardinality(FilesOf(tree)) > 1

\* the paths of the folders above the file of path p
AncestorsOf(p) == {SubSeq(p, 1, i - 1) : i \in {j \in 1..Len(p) : p[j] = "/"}}

Shown(n) == \E i \in 1..Len(visible) : visible[i].node = n

\* every file of the tree whose path contains q (case ignored) has the folders
\* above it auto-expanded and is in the visible list
MatchesAreShown(q) ==
    \A f \in MatchingFiles(q) : AncestorsOf(f.path) \subseteq autoExpand /\ Shown(f)

\* C19 as stated: for every non-empty filter text and every set of manually
\* expanded folders, each file matching the text has all the folders above it
\* in the auto-expand set and is in the list of flattenVisibleNodes.
C19_Original == filterText # <<>> => MatchesAreShown(filterText)

\* C19 for the texts that are not empty once trimmed, a file matching when
\* its path contains the trimmed text.
C19_MatchesAutoExpanded == trim(filterText) # <<>> => MatchesAreShown(trim(filterText))

\* no folder was expanded by hand, and the file two folders deep that the
\* text matches is in the list
C19_Witness ==
    /\ filterText = <<"T", "/">>
    /\ expandedFolders = {}
    /\ \E i \in 1..Len(visible) : visible[i].node.path = RelSTD /\ visible[i].depth = 2
    /\ {RelS, <<"s", "/", "t">>} \subseteq autoExpand

RECURSIVE PositionsOf(_)
\* the position of every node of a list of trees: the indices that lead to it
PositionsOf(nodes) ==
    UNION {{<<i>>} \cup
           (IF nodes[i].kind = "folder"
            THEN {<<i>> \o below : below \in PositionsOf(nodes[i].children)}
            ELSE {})
           : i \in 1..Len(nodes)}

RECURSIVE NodeAt(_, _)
NodeAt(nodes, pos) ==
    IF Len(pos) = 1 THEN nodes[pos[1]] ELSE NodeAt(nodes[pos[1]].children, Tail(pos))

\* every folder above the position is expanded by hand or by the filter
VisiblePosition(pos) ==
    \A k \in 1..(Len(pos) - 1) :
        NodeAt(filteredTree, SubSeq(pos, 1, k)).path \in expandedFolders \cup autoExpand

\* a is met before b by a depth-first walk that visits a node before its children
Before(a, b) ==
    \/ Len(a) < Len(b) /\ SubSeq(b, 1, Len(a)) = a
    \/ \E k \in 1..Len(a) :
           k <= Len(b) /\ SubSeq(a, 1, k - 1) = SubSeq(b, 1, k - 1) /\ a[k] < b[k]

RECURSIVE InWalkOrder(_)
InWalkOrder(positions) ==
    IF positions = {} THEN <<>>
    ELSE LET first == CHOOSE a \in positions : \A b \in positions \ {a} : Before(a, b)
         IN  <<first>> \o InWalkOrder(positions \ {first})

\* C20: the list of flattenVisibleNodes holds, in depth-first pre-order, every
\* node all of whose ancestor folders are in expandedFolders or in autoExpand,
\* each exactly once and with its depth (0 at the top level, one more than its
\* parent below), and no other node; it is the function of its three arguments.
C20_PreOrderOfVisible ==
    LET expected == InWalkOrder({pos \in PositionsOf(filteredTree) : VisiblePosition(pos)})
    IN  /\ Len(visible) = Len(expected)
        /\ \A i \in 1..Len(expected) :
               /\ visible[i].node = NodeAt(filteredTree, expected[i])
               /\ visible[i].depth = Len(expected[i]) - 1
        /\ visible = flattenVisibleNodes(filteredTree, expandedFolders, autoExpand)

\* one folder opened by hand, one by the filter, one closed with a file
\* below it that the list does not hold
C20_Witness ==
    /\ RelS \in expandedFolders /\ RelS \notin autoExpand
    /\ \E i \in 1..Len(visible) : visible[i].depth = 1
    /\ \E n \in FoldersOf(filteredTree) :
           /\ n.path \notin expandedFolders \cup autoExpand
           /\ Shown(n)
           /\ \A f \in FilesOf(n.children) : ~Shown(f)
    /\ Len(visible) >= 4

(***************************************************************************)
(* The sidebar's keyboard cursor: App holds cursorPath, Sidebar moves it   *)
(* from its rows, its key handler and its two effects, and openPath sets   *)
(* it when the selection changes.  The page shows a listing of two files   *)
(* or more, so that the Sidebar is mounted.                                *)
(***************************************************************************)
CursorPaths == {RelA, RelSC, RelSTD}

CursorFile(p) == [path |-> p, name |-> basename(p), mtimeMs |-> 1, isSymlink |-> FALSE]

\* the listing of the first /api/files response
CursorFileLists == {<<CursorFile(RelA), CursorFile(RelSC)>>}

\* the files a rescan of the server finds later
CursorLater == {RelSTD}

CursorFilterTexts == {<<>>, <<"a">>, <<"c">>, <<"x">>}

KeyNames == {"ArrowDown", "ArrowUp", "Enter"}

\* `f.path.split("/").filter(Boolean)[0]` of every file of the listing
topLevel(fs) == {FilterBoolean(Split(fs[i].path))[1] : i \in 1..Len(fs)}

\* the page of a server with several files, after the first /api/files
\* response or, later, with a.md opened from its row and an edit typed into it
InitCursor ==
    /\ ClientIdleRest
    /\ GitNotStarted
    /\ ListingNotStarted
    /\ MoreNotStarted
    /\ \E edited \in BOOLEAN :
           /\ selectedPath = IF edited THEN RelA ELSE NoPath
           /\ content = IF edited THEN "d1" ELSE ""
           /\ editedContent = IF edited THEN "u1" ELSE ""
           /\ hasChanges = edited
           /\ isEditing = edited
    /\ reloadToast = FALSE
    /\ fetches = {}
    /\ saves = {}
    /\ notices = {}
    /\ fileText = [p \in CursorPaths |-> "d1"]
    /\ apiFiles \in CursorFileLists
    /\ sortOrder = "name-asc"
    /\ filterText = <<>>
    /\ expandedFolders = topLevel(apiFiles)
    /\ Rendered
    /\ cursorPath = IF selectedPath = NoPath THEN cursorAfter(NoPath, apiFiles, visible)
                    ELSE selectedPath

sidebarRest == <<envVars, discoveryVars, serverVars, gitVars, listingVars, moreVars>>

\* refreshFiles(true) from the response on: setFiles(data.files), where the
\* server has added the files of more to its listing
Refreshed(more) ==
    /\ Len(apiFiles) + Len(more) <= MaxFiles
    /\ \A i \in 1..Len(more) : \A j \in 1..Len(apiFiles) : more[i].path # apiFiles[j].path
    /\ render(apiFiles \o more, sortOrder, filterText, expandedFolders)
    /\ UNCHANGED treeRest

\* onMouseEnter of a row: onCursor(node.path)
MouseEnter(i) ==
    /\ i \in 1..Len(visible)
    /\ cursorPath' = cursorAfter(visible[i].node.path, apiFiles, visible)
    /\ UNCHANGED <<sidebarRest, bufferVars, treeVars>>

\* toggleFolder(path) after setCursorPath(cur)
toggleFolderFrom(path, cur) ==
    /\ renderWithCursor(apiFiles, sortOrder, filterText,
                        IF path \in expandedFolders THEN expandedFolders \ {path}
                        ELSE expandedFolders \cup {path},
                        cur)
    /\ UNCHANGED treeRest

\* openPath(path) after setCursorPath(cur), up to its await or to its end
openPathFrom(p, cur) ==
    /\ IF p = selectedPath
       THEN /\ cursorPath' = cursorAfter(cur, apiFiles, visible)
            /\ UNCHANGED <<selectedPath, fetches, saves>>
       ELSE IF hasChanges
       THEN /\ Cardinality(saves) < MaxSaves
            /\ saves' = saves \cup {[path |-> selectedPath, body |-> editedContent,
                                     status |-> "sent", then |-> p]}
            /\ cursorPath' = cursorAfter(cur, apiFiles, visible)
            /\ UNCHANGED <<selectedPath, fetches>>
       ELSE /\ Cardinality(fetches) < MaxFetches
            /\ selectPath(p)
            /\ UNCHANGED saves
    /\ UNCHANGED <<restVars, content, editedContent, hasChanges, isEditing, reloadToast,
                   notices, fileText>>

\* onClick of a row: onCursor(node.path), then the folder is toggled or the
\* file is opened
ClickRow(i) ==
    /\ i \in 1..Len(visible)
    /\ LET node == visible[i].node
       IN  IF node.kind = "folder" THEN toggleFolderFrom(node.path, node.path)
           ELSE openPathFrom(node.path, node.path)

\* visible.findIndex((v) => v.node.path === cursorPath), from 0, or -1
findIndex(vis, cur) ==
    IF \E i \in 1..Len(vis) : vis[i].node.path = cur
    THEN (CHOOSE i \in 1..Len(vis) :
              vis[i].node.path = cur /\ \A j \in 1..(i - 1) : vis[j].node.path # cur) - 1
    ELSE -1

Min(a, b) == IF a < b THEN a ELSE b
Max(a, b) == IF a > b THEN a ELSE b

\* onKeyDown of the list
KeyDown(key) ==
    /\ visible # <<>>
    /\ LET idx == IF cursorPath # NoPath THEN findIndex(visible, cursorPath) ELSE -1
       IN  CASE key = "ArrowDown" ->
                    /\ cursorPath' = cursorAfter(visible[Min(idx + 1, Len(visible) - 1) + 1].node.path,
                                                 apiFiles, visible)
                    /\ UNCHANGED <<sidebarRest, bufferVars, treeVars>>
             [] key = "ArrowUp" ->
                    /\ cursorPath' = cursorAfter(visible[Max(idx - 1, 0) + 1].node.path,
                                                 apiFiles, visible)
                    /\ UNCHANGED <<sidebarRest, bufferVars, treeVars>>
             [] key = "Enter" ->
                    LET current == visible[Max(idx, 0) + 1].node
                    IN  IF current.kind = "folder" THEN toggleFolderFrom(current.path, cursorPath)
                        ELSE openPathFrom(current.path, cursorPath)

NextCursor ==
    \/ \E text \in CursorFilterTexts : SetFilterText(text)
    \/ \E so \in SortOrders : SetSortOrder(so)
    \/ \E p \in CursorLater : Refreshed(<<CursorFile(p)>>)
    \/ \E i \in 1..MaxFiles + 2 : MouseEnter(i)
    \/ \E i \in 1..MaxFiles + 2 : ClickRow(i)
    \/ \E key \in KeyNames : KeyDown(key)
    \/ \E sv \in saves, ok \in BOOLEAN : ServePut(sv, ok)
    \/ \E sv \in saves : SaveDone(sv)
    \/ \E f \in fetches : ServeGet(f)
    \/ \E f \in fetches : FetchDone(f)

SpecCursor == InitCursor /\ [][NextCursor]_vars

VisiblePaths == {visible[i].node.path : i \in 1..Len(visible)}

C22_FailedSaveKeepsBuffer ==
    [][\A sv \in saves :
          (sv.status = "failed" /\ SaveDone(sv)) =>
              /\ editedContent' = editedContent
              /\ content' = content
              /\ hasChanges' = hasChanges
              /\ selectedPath' = selectedPath
              /\ (isEditing' /\ hasChanges') =>
                     (selectedPath' # NoPath /\ Cardinality(saves') < MaxSaves)]_vars

\* the save of what the user typed has failed and handleSave is about to
\* see it, with the typed text still in the buffer
C22_Witness ==
    \E sv \in saves :
        /\ sv.status = "failed"
        /\ sv.path = selectedPath
        /\ sv.body = editedContent
        /\ isEditing /\ hasChanges
        /\ content # editedContent

\* what the user types: a first text, and a second one typed after it
SwitchTexts == {"u1", "u2"}

\* the client with a user who goes on typing; no other program writes the
\* files, and the file-changed events of the client's own saves are not
\* delivered
NextSwitch ==
    \/ \E p \in ClientPaths : OpenPath(p)
    \/ ToggleEditing
    \/ \E t \in SwitchTexts : Type(t)
    \/ HandleSave
    \/ \E sv \in saves, ok \in BOOLEAN : ServePut(sv, ok)
    \/ \E sv \in saves : SaveDone(sv)
    \/ \E f \in fetches : ServeGet(f)
    \/ \E f \in fetches : FetchDone(f)

SpecSwitch == InitClient /\ [][NextSwitch]_vars

\* C23 as stated: openPath on another file with unsaved changes sends the
\* save of the current file and leaves the selection; the selection leaves
\* a file only without a save or in the step that sees the save succeed;
\* a failed save leaves selection and buffer; and when the selection
\* leaves a file whose buffer holds text the user typed, that text is what
\* was written to the file.
C23_Original ==
    [][/\ \A p \in ClientPaths :
             (OpenPath(p) /\ hasChanges) =>
                 /\ selectedPath' = selectedPath
                 /\ \E sv \in saves' \ saves :
                        sv.path = selectedPath /\ sv.body = editedContent /\ sv.then = p
       /\ (selectedPath' # selectedPath /\ hasChanges) =>
              \E sv \in saves : sv.status = "ok" /\ sv.then = selectedPath' /\ SaveDone(sv)
       /\ \A sv \in saves :
             (sv.status = "failed" /\ SaveDone(sv)) =>
                 selectedPath' = selectedPath /\ editedContent' = editedContent
       /\ (selectedPath' # selectedPath /\ selectedPath # NoPath /\ editedContent \in SwitchTexts) =>
              fileText[selectedPath] = editedContent]_vars

\* the selection has moved to s/c.md while the buffer holds text typed into
\* a.md after its save was sent, and the read of s/c.md is on its way
C23_Witness ==
    /\ selectedPath = RelSC
    /\ hasChanges
    /\ editedContent = "u2"
    /\ content = "u1"
    /\ fileText[RelA] = "u1"
    /\ \E f \in fetches : f.kind = "select" /\ f.path = RelSC

(***************************************************************************)
(* The command line: cli.ts main on process.argv.slice(2)                  *)
(***************************************************************************)
MaxArgs == 3

FlagP == <<"-", "p">>
FlagPort == <<"-", "-", "p", "o", "r", "t">>
FlagH == <<"-", "h">>
FlagHelp == <<"-", "-", "h", "e", "l", "p">>
FlagNoOpen == <<"-", "-", "n", "o", "-", "o", "p", "e", "n">>
FlagRecursive == <<"-", "-", "r", "e", "c", "u", "r", "s", "i", "v", "e">>
FlagHidden == <<"-", "-", "h", "i", "d", "d", "e", "n">>
FlagBogus == <<"-", "-", "x">>

\* port arguments: a number, a number followed by a letter, and a word
Arg80 == <<"8", "0">>
Arg80x == <<"8", "0", "x">>
ArgWord == <<"w">>

ArgTokens == {FlagP, FlagHelp, FlagRecursive, FlagBogus, Arg80, Arg80x, ArgWord, TokA, TokX, TokS}

ArgLists == UNION {[1..n -> ArgTokens] : n \in 0..MaxArgs}

DigitValue ==
    [c \in {"0", "1", "2", "3", "4", "5", "6", "7", "8", "9"} |->
        CASE c = "0" -> 0 [] c = "1" -> 1 [] c = "2" -> 2 [] c = "3" -> 3 [] c = "4" -> 4
          [] c = "5" -> 5 [] c = "6" -> 6 [] c = "7" -> 7 [] c = "8" -> 8 [] c = "9" -> 9]

RECURSIVE parseDigits(_, _, _)
\* the digits of s from position i on, up to the first other character
parseDigits(s, i, acc) ==
    IF i > Len(s) \/ s[i] \notin DOMAIN DigitValue THEN acc
    ELSE parseDigits(s, i + 1, [seen |-> TRUE, value |-> acc.value * 10 + DigitValue[s[i]]])

\* parseInt(s, 10): an optional sign and the longest run of digits after it,
\* NaN when there is no digit there
parseInt(s) ==
    LET signed == s # <<>> /\ s[1] \in {"-", "+"}
        d == parseDigits(s, IF signed THEN 2 ELSE 1, [seen |-> FALSE, value |-> 0])
    IN  IF ~d.seen THEN [nan |-> TRUE, value |-> 0]
        ELSE [nan |-> FALSE, value |-> IF signed /\ s[1] = "-" THEN 0 - d.value ELSE d.value]

\* process.exit(status) after the message, before startServer
exited(status, message) ==
    [done |-> TRUE, status |-> status, message |-> message, server |-> FALSE,
     inputs |-> <<>>, port |-> 3000, recursive |-> FALSE, includeHidden |-> FALSE, files |-> <<>>]

RECURSIVE parseArgs(_, _, _)
\* the loop of main over the arguments, from index i (from 1) on
parseArgs(a, i, st) ==
    IF i > Len(a) THEN st
    ELSE LET arg == a[i]
         IN  IF arg = FlagP \/ arg = FlagPort
             THEN IF i + 1 > Len(a) \/ a[i + 1] = <<>>
                  THEN exited(1, "Error: --port requires a number")
                  ELSE LET n == parseInt(a[i + 1])
                       IN  IF n.nan THEN exited(1, "Error: Invalid port number")
                           ELSE parseArgs(a, i + 2, [st EXCEPT !.port = n.value])
             ELSE IF arg = FlagNoOpen THEN parseArgs(a, i + 1, st)
             ELSE IF arg = FlagRecursive THEN parseArgs(a, i + 1, [st EXCEPT !.recursive = TRUE])
             ELSE IF arg = FlagHidden THEN parseArgs(a, i + 1, [st EXCEPT !.includeHidden = TRUE])
             ELSE IF arg # <<>> /\ ~StartsWith(arg, <<"-">>)
             THEN parseArgs(a, i + 1, [st EXCEPT !.inputs = Append(st.inputs, arg)])
             ELSE exited(1, "Error: Unknown option")

\* main: how it ends, or the configuration it hands to startServer
main(a, c, d, u, g) ==
    IF Len(a) = 0 \/ Includes(a, FlagH) \/ Includes(a, FlagHelp) THEN exited(0, "help")
    ELSE LET st == parseArgs(a, 1, [done |-> FALSE, status |-> 0, message |-> "", server |-> FALSE,
                                    inputs |-> <<>>, port |-> 3000, recursive |-> FALSE,
                                    includeHidden |-> FALSE, files |-> <<>>])
         IN  IF st.done THEN st
             ELSE IF Len(st.inputs) = 0 THEN exited(1, "Error: No inputs specified")
             ELSE LET r == discoverMarkdownFiles(st.inputs,
                                                 [cwd |-> c, recursive |-> st.recursive,
                                                  includeHidden |-> st.includeHidden,
                                                  strict |-> "undefined"],
                                                 MkFs(c, d, u), g)
                  IN  IF ~r.ok THEN exited(1, r.err)
                      ELSE IF Len(r.paths) = 0 THEN exited(1, "Error: No markdown files found")
                      ELSE [st EXCEPT !.done = TRUE, !.server = TRUE, !.files = r.paths]

InitCli ==
    /\ cwd = CwdPlain
    /\ inputs = <<>>
    /\ recursive = FALSE
    /\ includeHidden = FALSE
    /\ \E rels \in ServerDisks : disk = MkDisk(cwd, rels)
    /\ unreadable = {}
    /\ strict = "undefined"
    /\ git = NoGit
    /\ outcome = NoOutcome
    /\ ServerNotStarted
    /\ ClientNotStarted
    /\ GitNotStarted
    /\ ListingNotStarted
    /\ TreeNotStarted
    /\ RefreshNotStarted
    /\ args \in ArgLists
    /\ exit = NotRun

\* main(), and startServer(config, port) when main reaches it
Main ==
    /\ ~exit.done
    /\ exit' = main(args, cwd, disk, unreadable, git)
    /\ inputs' = exit'.inputs
    /\ recursive' = exit'.recursive
    /\ includeHidden' = exit'.includeHidden
    /\ absoluteFiles' = AddAll(<<>>, exit'.files)
    /\ allowedFiles' = buildAllowedFiles(cwd, absoluteFiles')
    /\ singleFile' = (Len(allowedFiles') = 1)
    /\ watchRoots' = IF exit'.server
                     THEN setupWatchers(MkFs(cwd, disk, unreadable), inputs', cwd, recursive')
                     ELSE watchRoots
    /\ UNCHANGED <<cwd, disk, unreadable, discoveryVars, pendingRefresh, sseClients, conn, stream,
                   scans, lastReq, clientVars, gitVars, listingVars, treeVars, args, refreshVars>>

NextCli == Main

SpecCli == InitCli /\ [][NextCli]_vars

(***************************************************************************)
(* Properties of the command line                                          *)
(***************************************************************************)
IsPortFlag(arg) == arg = FlagP \/ arg = FlagPort

\* the arguments that are neither flags nor the value of a port flag
Positionals == {i \in 1..Len(args) :
                   /\ args[i] # <<>> /\ ~StartsWith(args[i], <<"-">>)
                   /\ (i = 1 \/ ~IsPortFlag(args[i - 1]))}

IsNumber(s) == s # <<>> /\ \A i \in 1..Len(s) : s[i] \in DOMAIN DigitValue

NoInputsGiven == Positionals = {}

\* a port flag whose value is missing or is not a number
InvalidPort ==
    \E i \in 1..Len(args) : IsPortFlag(args[i]) /\ (i = Len(args) \/ ~IsNumber(args[i + 1]))

\* a port flag whose value is missing or does not begin with a number
RejectedPort ==
    \E i \in 1..Len(args) : IsPortFlag(args[i]) /\ (i = Len(args) \/ parseInt(args[i + 1]).nan)

UnknownFlag ==
    \E i \in 1..Len(args) :
        /\ StartsWith(args[i], <<"-">>)
        /\ args[i] \notin {FlagP, FlagPort, FlagH, FlagHelp, FlagNoOpen, FlagRecursive, FlagHidden}

MissingLiteralInput ==
    \E i \in Positionals : ~isGlobPattern(args[i]) /\ resolve(cwd, args[i]) \notin DOMAIN disk

\* discovery on the positional arguments finds no markdown file
ZeroFilesFound ==
    LET ins == [k \in 1..Cardinality(Positionals) |->
                   args[CHOOSE i \in Positionals : Cardinality({j \in Positionals : j < i}) = k - 1]]
        r == discoverMarkdownFiles(ins, [cwd |-> cwd,
                                         recursive |-> Includes(args, FlagRecursive),
                                         includeHidden |-> Includes(args, FlagHidden),
                                         strict |-> "undefined"],
                                   MkFs(cwd, disk, unreadable), git)
    IN  ins # <<>> /\ r.ok /\ r.paths = <<>>

ExitedWithError ==
    /\ exit.status # 0
    /\ exit.message # ""
    /\ ~exit.server
    /\ absoluteFiles = <<>> /\ watchRoots = <<>>

HelpAsked == Len(args) = 0 \/ Includes(args, FlagH) \/ Includes(args, FlagHelp)

\* C24 as stated: with no inputs, an invalid port, an unknown flag, no
\* markdown file found or a missing literal input, main exits with a
\* non-zero status and a message and does not start the server.
C24_Original ==
    (exit.done /\ (NoInputsGiven \/ InvalidPort \/ UnknownFlag \/ ZeroFilesFound \/ MissingLiteralInput))
        => ExitedWithError

\* C24 amended: ... when there is an argument and none asks for the help,
\* and for a port value that is missing or does not begin with a number.
C24_ExitsWithError ==
    (exit.done /\ ~HelpAsked
        /\ (NoInputsGiven \/ RejectedPort \/ UnknownFlag \/ ZeroFilesFound \/ MissingLiteralInput))
        => ExitedWithError

\* main was given a port value that is not a number and has started the server
C24_Witness ==
    /\ exit.done
    /\ args = <<FlagP, Arg80x, TokA>>
    /\ InvalidPort /\ ~HelpAsked
    /\ exit.status = 0 /\ exit.server /\ exit.port = 80
    /\ absoluteFiles # <<>> /\ watchRoots # <<>>

\* main has ended on a missing literal input that came after a good one
C24_MissingWitness ==
    /\ exit.done /\ ~HelpAsked
    /\ args = <<TokA, FlagRecursive, TokX>>
    /\ Abs(cwd, TokA) \in DOMAIN disk
    /\ exit.status = 1 /\ ~exit.server

(***************************************************************************)
(* The watch roots: main starts the server on inputs that share            *)
(* directories, and the watchers and rescans run on                        *)
(***************************************************************************)
WatchArgTokens == {TokA, TokCwd, TokStar, TokDeep, TokS, RelSC, FlagRecursive}

WatchArgLists == UNION {[1..n -> WatchArgTokens] : n \in 1..MaxArgs}

InitWatch ==
    /\ cwd = CwdPlain
    /\ inputs = <<>>
    /\ recursive = FALSE
    /\ includeHidden = FALSE
    /\ \E rels \in ServerDisks : disk = MkDisk(cwd, rels)
    /\ unreadable = {}
    /\ strict = "undefined"
    /\ git = NoGit
    /\ outcome = NoOutcome
    /\ ServerNotStarted
    /\ ClientNotStarted
    /\ GitNotStarted
    /\ ListingNotStarted
    /\ TreeNotStarted
    /\ RefreshNotStarted
    /\ args \in WatchArgLists
    /\ exit = NotRun

\* startServer has been called
Serving == exit.done /\ exit.server

NextWatch ==
    \/ Main
    \/ Serving /\ \E rel \in Volatile : CreateFile(rel)
    \/ Serving /\ \E rel \in Volatile : DeleteFile(rel)
    \/ Serving /\ \E i \in 1..Len(watchRoots) :
          \E name \in WatchNames(watchRoots[i][1], watchRoots[i][2]) \cup {NoName} : WatchEvent(i, name)
    \/ Serving /\ \E u \in Unreadables : RescanStart(u)
    \/ Serving /\ \E r \in scans : RescanFinish(r)

SpecWatch == InitWatch /\ [][NextWatch]_vars

(***************************************************************************)
(* Properties of the watch roots                                           *)
(***************************************************************************)
RootSet(roots) == {roots[i] : i \in 1..Len(roots)}

RootDirs(roots) == {roots[i][1] : i \in 1..Len(roots)}

\* what one input alone asks to be watched: nothing, or one <<directory, recursive>>
WatchContribution(input, rec) ==
    RootSet(watchRootsFrom(MkFs(cwd, disk, unreadable), <<input>>, cwd, rec, <<>>))

Contributions(ins, rec) == UNION {WatchContribution(ins[i], rec) : i \in 1..Len(ins)}

Orders(n) == {p \in [1..n -> 1..n] : \A i, j \in 1..n : p[i] = p[j] => i = j}

UniqueRoots == \A i, j \in 1..Len(watchRoots) : watchRoots[i][1] = watchRoots[j][1] => i = j

\* each contributed directory is a root, recursive iff some input asks so;
\* with no contribution the working directory is the only root
RootsAsDemanded(roots, ins, rec) ==
    LET asked == Contributions(ins, rec)
    IN  IF asked = {}
        THEN RootSet(roots) = {<<cwd, rec>>}
        ELSE /\ RootDirs(roots) = {c[1] : c \in asked}
             /\ \A i \in 1..Len(roots) : roots[i][2] = (<<roots[i][1], TRUE>> \in asked)

OrderIndependent(roots, ins, rec) ==
    \A p \in Orders(Len(ins)) :
        RootSet(setupWatchers(MkFs(cwd, disk, unreadable), [i \in 1..Len(ins) |-> ins[p[i]]], cwd, rec))
            = RootSet(roots)

\* C25: the watch roots computed at startup hold each directory once, a
\* directory is recursive iff an input contributing it demands recursion,
\* whatever the order of the inputs, and the roots never change afterwards,
\* also not by a rescan.
C25_WatchRootsMerged ==
    /\ [](Serving => UniqueRoots)
    /\ [][(~exit.done /\ exit'.server) =>
            /\ RootsAsDemanded(watchRoots', inputs', recursive')
            /\ OrderIndependent(watchRoots', inputs', recursive')]_vars
    /\ [][exit.done => watchRoots' = watchRoots]_vars

\* a file, a directory and a deep pattern share the working directory, the
\* recursive demand came last, and a rescan has since added a file
C25_Witness ==
    /\ Serving
    /\ inputs = <<TokStar, RelSC, TokDeep>>
    /\ RootSet(watchRoots) = {<<cwd, TRUE>>, <<Abs(cwd, RelS), FALSE>>}
    /\ Len(absoluteFiles) > Len(exit.files)

(***************************************************************************)
(* Properties of the broadcast set                                         *)
(***************************************************************************)
BroadcastEvents == {EvFsChanged(TRUE), EvFsChanged(FALSE), EvFileChanged(RelA)}

\* broadcast from the current state: a subscriber whose enqueue throws
\* leaves the set and gets nothing, every other one gets the event once
BroadcastDropsFailed ==
    \A ev \in BroadcastEvents :
        LET b == broadcast(sseClients, conn, stream, ev)
        IN  \A c \in Subs :
                IF c \in sseClients /\ CanEnqueue(conn, c)
                THEN c \in b.clients /\ b.stream[c] = Append(stream[c], ev)
                ELSE c \notin b.clients /\ b.stream[c] = stream[c]

\* C26: a subscriber whose enqueue fails during a broadcast is removed from
\* the set and is sent no later event, every other connected subscriber
\* gets the event exactly once, and a cancelled stream leaves the set.
C26_FailedSubscriberRemoved ==
    /\ []BroadcastDropsFailed
    /\ [][\A c \in Subs : (c \notin sseClients /\ conn'[c] = conn[c])
              => (c \notin sseClients' /\ stream'[c] = stream[c])]_vars
    /\ [][\A c \in Subs : (conn[c] # "new" /\ conn'[c] = "new") => c \notin sseClients']_vars

\* subscriber 1 broke and was dropped; subscriber 2 has since been sent the
\* change of the flag that subscriber 1 never got
C26_Witness ==
    /\ conn[1] = "broken" /\ 1 \notin sseClients
    /\ conn[2] = "open" /\ 2 \in sseClients
    /\ stream[1] = <<EvReady>>
    /\ stream[2] = <<EvReady, EvFsChanged(TRUE), EvFsChanged(FALSE)>>

(***************************************************************************)
(* A rescan in flight against the watchers: every directory is readable,   *)
(* so a file on disk that a discovery pass did not return was created      *)
(* after the pass read its directory                                       *)
(***************************************************************************)
NextRace ==
    \/ \E rel \in Volatile : CreateFile(rel)
    \/ \E rel \in Volatile : DeleteFile(rel)
    \/ \E c \in Subs : Connect(c)
    \/ \E i \in 1..Len(watchRoots) :
          \E name \in WatchNames(watchRoots[i][1], watchRoots[i][2]) \cup {NoName} : WatchEvent(i, name)
    \/ RescanStart({})
    \/ \E r \in scans : RescanFinish(r)

SpecRace == Init /\ [][NextRace]_vars

\* the watch events that report rel
EventsFor(rel) ==
    {i \in 1..Len(watchRoots) :
        relative(watchRoots[i][1], Abs(cwd, rel)) \in WatchNames(watchRoots[i][1], watchRoots[i][2])}

\* the markdown files on disk that the inputs cover, reported by a watcher
\* and flagged, that the discovery pass r in flight did not return and the
\* allowed set does not hold
FlaggedUnseen(r) ==
    {rel \in Volatile :
        /\ Abs(cwd, rel) \in DOMAIN disk
        /\ isMarkdownPath(Abs(cwd, rel))
        /\ Includes(PassNow({}).paths, Abs(cwd, rel))
        /\ EventsFor(rel) # {}
        /\ ~Includes(r.paths, Abs(cwd, rel))
        /\ ~Has(allowedFiles, rel)
        /\ pendingRefresh}

\* C27 as stated: a watch event for a new markdown file classified while a
\* rescan is in flight is not lost; when that rescan completes, the file is
\* in the allowed set or pending-refresh is true.
C27_Original ==
    [][\A r \in scans : \A rel \in FlaggedUnseen(r) :
          (scans' = scans \ {r} /\ r.ok) => (pendingRefresh' \/ Has(allowedFiles', rel))]_vars

\* a.md was created and flagged while a rescan was in flight, the rescan has
\* completed, and a.md is neither allowed nor flagged
C27_Witness ==
    /\ inputs = <<TokCwd>>
    /\ scans = {}
    /\ Abs(cwd, RelA) \in DOMAIN disk
    /\ ~Has(allowedFiles, RelA)
    /\ ~pendingRefresh
    /\ \E c \in Subs : stream[c] = <<EvReady, EvFsChanged(TRUE), EvFsChanged(FALSE)>>

(***************************************************************************)
(* The pending-refresh indicator of one page: App fetches /api/files on    *)
(* mount and on the Refresh button and listens to /api/watch as            *)
(* subscriber TheClient.  A request is followed from the handler's rescan  *)
(* through its listing loop to the response on its way back; the file list *)
(* of the response is left out.                                            *)
(***************************************************************************)
TheClient == 1

Request(stage, b) == [stage |-> stage, pendingRefresh |-> b]

\* App has mounted: the first fetch("/api/files") is with the handler, the
\* EventSource is not yet open
InitRefresh ==
    /\ cwd = CwdPlain
    /\ inputs = <<TokCwd>>
    /\ recursive = TRUE
    /\ includeHidden = FALSE
    /\ \E rels \in ServerDisks : disk = MkDisk(cwd, rels)
    /\ unreadable = {}
    /\ strict = "undefined"
    /\ git = NoGit
    /\ LET r == discoverMarkdownFiles(inputs, Options, MkFs(cwd, disk, unreadable), git)
       IN  outcome = [done |-> TRUE, ok |-> r.ok, err |-> r.err, paths |-> r.paths]
    /\ absoluteFiles = AddAll(<<>>, outcome.paths)
    /\ allowedFiles = buildAllowedFiles(cwd, absoluteFiles)
    /\ singleFile = (Len(allowedFiles) = 1)
    /\ pendingRefresh \in BOOLEAN
    /\ sseClients = {}
    /\ conn = [c \in Subs |-> "new"]
    /\ stream = [c \in Subs |-> <<>>]
    /\ watchRoots = setupWatchers(MkFs(cwd, disk, unreadable), inputs, cwd, recursive)
    /\ scans = {}
    /\ lastReq = NoRequest
    /\ ClientNotStarted
    /\ GitNotStarted
    /\ ListingNotStarted
    /\ TreeNotStarted
    /\ CliNotStarted
    /\ clientPending = FALSE
    /\ received = {Request("listing", FALSE)}
    /\ delivered = 0

refreshRest == <<envVars, discoveryVars, clientVars, gitVars, listingVars, treeVars, cliVars>>

\* the Refresh button, shown while the indicator is set: refreshFiles(true),
\* and the handler up to the await inside rescan
ClickRefresh ==
    /\ clientPending
    /\ rescanStart({})
    /\ received' = received \cup {Request("rescan", FALSE)}
    /\ UNCHANGED <<clientPending, delivered>>

\* the handler of the refresh request from the return of the discovery pass
\* to the start of its listing loop
RefreshRescanned(r) ==
    /\ rescanFinish(r)
    /\ received' = (received \ {Request("rescan", FALSE)}) \cup {Request("listing", FALSE)}
    /\ UNCHANGED <<clientPending, delivered>>

\* the handler after its listing loop: Response.json({..., pendingRefresh, files})
Answer ==
    /\ Request("listing", FALSE) \in received
    /\ received' = (received \ {Request("listing", FALSE)}) \cup {Request("response", pendingRefresh)}
    /\ UNCHANGED <<refreshRest, serverVars, clientPending, delivered>>

\* the .then of the fetch: setPendingRefresh(Boolean(data.pendingRefresh))
DeliverListing(q) ==
    /\ q.stage = "response"
    /\ received' = received \ {q}
    /\ clientPending' = q.pendingRefresh
    /\ UNCHANGED <<refreshRest, serverVars, delivered>>

\* onFsChanged, or an event that leaves the indicator alone
onEvent(pending, ev) == IF ev.type = "fs-changed" THEN ev.pendingRefresh ELSE pending

\* the EventSource hands the next event of the stream to its listener
DeliverEvent ==
    /\ conn[TheClient] = "open"
    /\ delivered < Len(stream[TheClient])
    /\ delivered' = delivered + 1
    /\ clientPending' = onEvent(clientPending, stream[TheClient][delivered + 1])
    /\ UNCHANGED <<refreshRest, serverVars, received>>

NextRefresh ==
    \/ \E rel \in Volatile : CreateFile(rel)
    \/ \E rel \in Volatile : DeleteFile(rel)
    \/ Connect(TheClient)
    \/ \E i \in 1..Len(watchRoots) :
          \E name \in WatchNames(watchRoots[i][1], watchRoots[i][2]) \cup {NoName} : WatchEvent(i, name)
    \/ ClickRefresh
    \/ \E r \in scans : RefreshRescanned(r)
    \/ Answer
    \/ \E q \in received : DeliverListing(q)
    \/ DeliverEvent

SpecRefresh == InitRefresh /\ [][NextRefresh]_vars

\* everything sent to the page has arrived and no rescan is running
Quiescent ==
    /\ conn[TheClient] = "open" /\ TheClient \in sseClients
    /\ received = {}
    /\ scans = {}
    /\ delivered = Len(stream[TheClient])

\* C28 as stated: for a connected client, once every listing response and
\* every fs-changed event in flight has been delivered and no rescan is
\* running, the indicator of the page equals the flag of the server.
C28_Original == Quiescent => clientPending = pendingRefresh

\* the page was told of the change by the event and then of the state before
\* it by the response: the flag is set, the indicator is not, nothing is in flight
C28_Witness ==
    /\ Quiescent
    /\ stream[TheClient] = <<EvReady, EvFsChanged(TRUE)>>
    /\ pendingRefresh /\ ~clientPending

(***************************************************************************)
(* Single-file mode: the server starts on a directory that holds one or    *)
(* two markdown files, files come and go, rescans run, and /api/file is    *)
(* asked with and without a path                                           *)
(***************************************************************************)
SingleDisks == {{RelB, RelN}, {RelA, RelB, RelN}}

InitSingle ==
    /\ cwd = CwdPlain
    /\ inputs = <<TokCwd>>
    /\ recursive = TRUE
    /\ includeHidden = FALSE
    /\ \E rels \in SingleDisks : disk = MkDisk(cwd, rels)
    /\ unreadable = {}
    /\ strict = "undefined"
    /\ git = NoGit
    /\ LET r == discoverMarkdownFiles(inputs, Options, MkFs(cwd, disk, unreadable), git)
       IN  outcome = [done |-> TRUE, ok |-> r.ok, err |-> r.err, paths |-> r.paths]
    /\ absoluteFiles = AddAll(<<>>, outcome.paths)
    /\ allowedFiles = buildAllowedFiles(cwd, absoluteFiles)
    /\ singleFile = (Len(allowedFiles) = 1)
    /\ pendingRefresh = FALSE
    /\ sseClients = {}
    /\ conn = [c \in Subs |-> "new"]
    /\ stream = [c \in Subs |-> <<>>]
    /\ watchRoots = setupWatchers(MkFs(cwd, disk, unreadable), inputs, cwd, recursive)
    /\ scans = {}
    /\ lastReq = NoRequest
    /\ ClientNotStarted
    /\ LibNotStarted

SpecSingle == InitSingle /\ [][NextFiles]_vars

\* the answer to a request without ?path= in a server state
Pathless(method, body, single, allowed, d) == fileRoute(method, <<>>, body, single, allowed, d)

PathlessCalls == {<<"GET", "">>, <<"PUT", "string">>}

\* with the flag the request is resolved to the only allowed file, without
\* it the request is refused for its missing path
PathlessFollowsFlag(single, allowed, d) ==
    \A call \in PathlessCalls :
        LET resp == Pathless(call[1], call[2], single, allowed, d)
        IN  IF single
            THEN /\ requestRelPath(<<>>, single, allowed) = allowed[1][1]
                 /\ resp.io = allowed[1][2]
                 /\ resp.status \in {200, 404}
            ELSE /\ requestRelPath(<<>>, single, allowed) = <<>>
                 /\ resp.status = 400 /\ resp.io = <<>>

\* C29: the single-file flag is true iff the allowed set has exactly one
\* entry; a request for file content without a path is served with the sole
\* file iff the flag is true and is otherwise refused as missing its path;
\* after a rescan grows the set from one file to several it is refused.
C29_SingleFileMode ==
    /\ [](singleFile <=> Len(allowedFiles) = 1)
    /\ []PathlessFollowsFlag(singleFile, allowedFiles, disk)
    /\ [][(Len(allowedFiles) = 1 /\ Len(allowedFiles') > 1) =>
            \A call \in PathlessCalls :
                Pathless(call[1], call[2], singleFile', allowedFiles', disk').status = 400]_vars

\* the server started on one file and served it without a path; a rescan
\* has added a.md, and the request without a path is now refused
C29_Witness ==
    /\ Len(outcome.paths) = 1
    /\ Len(allowedFiles) = 2 /\ Has(allowedFiles, RelA)
    /\ ~singleFile
    /\ lastReq.method = "GET" /\ lastReq.path = <<>> /\ lastReq.status = 400

(***************************************************************************)
(* Reads of a file against changes of the selection: the two files hold    *)
(* different texts, nothing is typed, and a second read can be sent while  *)
(* the first is in flight                                                  *)
(***************************************************************************)
MaxReads == 2

InitStale ==
    /\ ClientIdleRest
    /\ selectedPath = NoPath
    /\ cursorPath = NoPath
    /\ content = ""
    /\ editedContent = ""
    /\ hasChanges = FALSE
    /\ isEditing = FALSE
    /\ reloadToast = FALSE
    /\ fetches = {}
    /\ saves = {}
    /\ notices = {}
    /\ fileText = [p \in ClientPaths |-> IF p = RelA THEN "d1" ELSE "d2"]
    /\ LibNotStarted

\* openPath while a read may still be in flight
OpenPathLoading(p) == openPathWithin(p, MaxReads)

NextStale ==
    \/ \E p \in ClientPaths : OpenPathLoading(p)
    \/ \E p \in ExternallyWritten : ExternalWrite(p, fileText[p])
    \/ \E p \in ClientPaths : FileChanged(p)
    \/ \E f \in fetches : ServeGet(f)
    \/ \E f \in fetches : FetchDone(f)

SpecStale == InitStale /\ [][NextStale]_vars

\* C30 as stated: whenever no read of a file is in flight, the content the
\* page holds was read from the selected path; a response to a read issued
\* for a file selected before never replaces it.
C30_Original ==
    (fetches = {} /\ selectedPath # NoPath) =>
        (content = fileText[selectedPath] /\ editedContent = fileText[selectedPath])

\* s/c.md is selected, no read is in flight, and the page shows the text of a.md
C30_Witness ==
    /\ selectedPath = RelSC
    /\ fetches = {}
    /\ content = "d1" /\ editedContent = "d1"
    /\ fileText[RelSC] = "d2"

====
